---------------------------- MODULE Spec2Model ----------------------------
(***************************************************************************)
(* A model of the PubMed knowledge-graph service:                          *)
(*   - GraphService (app/services/graph_service.py): the store of graphs   *)
(*     and the build_graph coroutine, one step per stretch of code between *)
(*     two suspension points (asyncio runs one task at a time and switches *)
(*     only at an await);                                                  *)
(*   - the routes of app/api/routes/graph.py that change the store;        *)
(*   - PubMedService (app/services/pubmed_service.py): the rate limiter    *)
(*     and _make_request, over a discrete clock.                           *)
(***************************************************************************)
EXTENDS Integers, Sequences, FiniteSets, TLC

(***************************************************************************)
(* Program constants.                                                      *)
(***************************************************************************)
\* graph_service.py:19  self.MAX_ARTICLES = 50
MAX_ARTICLES == 50

\* Times are in tenths of a second.
\* pubmed_service.py:15  RATE_LIMIT_DELAY = 0.5
RATE_LIMIT_DELAY == 5
\* pubmed_service.py:16  MAX_RETRIES = 3
MAX_RETRIES == 3
\* pubmed_service.py:40  aiohttp.ClientTimeout(total=30)
TIMEOUT_TOTAL == 300
\* pubmed_service.py:45, 58  the base of the backoff, 2 ** retries seconds
BACKOFF_UNIT == 10

(***************************************************************************)
(* Bounds of the model.                                                    *)
(***************************************************************************)
\* build_graph calls made in one behaviour
MaxBuilds == 2
\* graph objects ever created (create_graph calls)
MaxGraphs == 2
\* fetches of one behaviour that return long relationship lists
MaxLongFetches == 1
\* coroutines that use the one PubMedService, and requests each may issue
NumTasks == 3
MaxRequests == 3
\* time.time() when the service starts
Epoch == 1000
\* the time the network takes to answer, at least
NetDelay == 2
\* attempts of one behaviour that do not end with status 200: when one caller
\* issues its requests in turn, and when several callers run together
MaxFaults == 4
ConcFaults == 1

\* graph ids handed to the service, and the publication ids the fetchers know
GraphIds == 1..MaxGraphs
\* the node ids that queries ask about: the seed, a neighbour, a stranger
QueryNodes == {1, 2, 99}
\* the largest graph whose full analytics a property of the store computes
SmallGraph == 4
SeedPmids == {1}
\* build_graph's max_depth: its default, and the values a caller passes when
\* the argument is what is looked at
DEFAULT_MAX_DEPTH == 3
MaxDepths == {0, 1, DEFAULT_MAX_DEPTH}
\* publications whose metadata fetch may fail or whose processing may raise
FlakyPmids == {1, 2}

Range(a, b) == [i \in 1..(b - a + 1) |-> a + i - 1]

\* What get_article_relationships may return for the seed. Short lists: none,
\* a repeated id that is also in both lists, the seed itself in both.
ShortRelationships ==
    { [references |-> <<>>,          citations |-> <<>>],
      [references |-> <<3, 3>>,      citations |-> <<3>>],
      [references |-> <<1, 2>>,      citations |-> <<2, 1, 3>>] }

\* Long lists: 48 (one of them twice), 49 and 50 distinct neighbours, that is
\* one below, at and above the budget once the seed is counted.
LongRelationships ==
    { [references |-> Range(3, 27),  citations |-> Range(27, 50)],
      [references |-> Range(3, 27),  citations |-> Range(28, 51)],
      [references |-> Range(3, 27),  citations |-> Range(28, 52)] }

NoRelationships == [references |-> <<>>, citations |-> <<>>]

(***************************************************************************)
(* networkx.DiGraph, as far as the service uses it: a node map (node ->    *)
(* attributes), an edge map ((u, v) -> relationship_type; one edge per     *)
(* ordered pair) and the graph.graph metadata dictionary.                  *)
(***************************************************************************)
Absent == "absent"
AttrKeys == {"pmid", "title", "journal"}
NoAttrs == [k \in AttrKeys |-> Absent]
\* get_article_details' dictionary ("journal" stands for the other fetched keys)
DetailsAttrs == [pmid |-> "pmid", title |-> "fetched", journal |-> "fetched"]
\* graph.add_node(current_pmid, pmid=current_pmid, title=f"PMID: {current_pmid}")
PlaceholderAttrs == [pmid |-> "pmid", title |-> "placeholder", journal |-> Absent]

EmptyMap == [x \in {} |-> Absent]

\* dict.update: the new keys win, the others are kept
UpdateAttrs(old, new) ==
    [k \in AttrKeys |-> IF new[k] # Absent THEN new[k] ELSE old[k]]

\* DiGraph.add_node(n, **attrs)
AddNode(G, n, attrs) ==
    [G EXCEPT !.nodes =
        (n :> UpdateAttrs(IF n \in DOMAIN G.nodes THEN G.nodes[n] ELSE NoAttrs, attrs))
        @@ G.nodes]

\* (mutant) add_edge that records the edge and its source, not its target
AddEdgesSourceOnly(G, pairs, t) ==
    LET ends == {e[1] : e \in pairs} IN
    [G EXCEPT
        !.nodes = [n \in DOMAIN G.nodes \cup ends |->
                     IF n \in DOMAIN G.nodes THEN G.nodes[n] ELSE NoAttrs],
        !.edges = [e \in DOMAIN G.edges \cup pairs |->
                     IF e \in pairs THEN t ELSE G.edges[e]]]

\* DiGraph.add_edge(u, v, relationship_type=t) for every (u, v) of pairs: both
\* endpoints become nodes (without attributes when new), and an existing
\* (u, v) edge has its attribute overwritten.
AddEdges(G, pairs, t) ==
    LET ends == {e[1] : e \in pairs} \cup {e[2] : e \in pairs} IN
    [G EXCEPT
        !.nodes = [n \in DOMAIN G.nodes \cup ends |->
                     IF n \in DOMAIN G.nodes THEN G.nodes[n] ELSE NoAttrs],
        !.edges = [e \in DOMAIN G.edges \cup pairs |->
                     IF e \in pairs THEN t ELSE G.edges[e]]]

Terminal == {"completed", "completed_with_limit"}

\* create_graph's new DiGraph; limit_reached and completed_at are keys that
\* are absent until build_graph sets them (FALSE: absent).
NewGraph(graph_id, seed_pmid) ==
    [ id                 |-> graph_id,
      seed_pmid          |-> seed_pmid,
      status             |-> "initializing",
      total_articles     |-> 0,
      processed_articles |-> 0,
      limit_reached      |-> FALSE,
      completed_at       |-> FALSE,
      nodes              |-> EmptyMap,
      edges              |-> EmptyMap ]

(***************************************************************************)
(* State.                                                                  *)
(***************************************************************************)
VARIABLES
    graphs,     \* GraphService.graphs: graph id -> graph object (index of heap)
    heap,       \* the DiGraph objects ever created, in creation order
    builds,     \* the build_graph activations: locals and position
    long_fetches, \* fetches so far that returned long lists
    now,        \* time.time()
    last_request_time,  \* PubMedService.last_request_time
    tasks,      \* the coroutines calling _make_request: locals and position
    quota,      \* requests each coroutine has still to issue
    faults,     \* failing attempts the network may still produce
    calls,      \* history: network calls (session.get) started so far
    min_gap,    \* history: least time between two successive network calls
    response    \* what the latest analytics call returned

gvars == <<graphs, heap, builds, long_fetches>>
cvars == <<now, last_request_time, tasks, quota, faults, calls, min_gap>>
qvars == <<response>>
vars == <<graphs, heap, builds, long_fetches,
          now, last_request_time, tasks, quota, faults, calls, min_gap, response>>

\* Python's None; the text of a response; no value returned yet.
None == [none |-> TRUE]
Body == [text |-> "body"]
Pending == [pending |-> TRUE]

BuildIds == 1..MaxBuilds

IdleBuild ==
    [ pc              |-> "idle",
      graph_id        |-> 0,
      graph           |-> 0,
      seed_pmid       |-> 0,
      processed_pmids |-> {},
      to_process      |-> <<>>,
      current_pmid    |-> 0,
      result          |-> "none",   \* the status build_graph returned
      exit_processed  |-> 0,        \* history: len(processed_pmids) at loop exit
      exit_frontier   |-> 0,        \* history: len(to_process) at loop exit
      failed          |-> {},       \* history: the ids whose processing raised
      fetched         |-> [references |-> <<>>, citations |-> <<>>],
                                    \* history: the lists returned for the seed
      max_depth       |-> 0,        \* the argument of the call
      order           |-> <<>> ]    \* history: the ids in the order of their passes
                                    \* through lines 61-71 (marked processed,
                                    \* counted, both fetches started)

TaskIds == 1..NumTasks

IdleTask ==
    [ pc         |-> "idle",
      retries    |-> 0,       \* _make_request's retries argument
      wake       |-> 0,       \* when the pending asyncio.sleep is over
      wait       |-> 0,       \* wait_time of the pending or last backoff
      failed_at  |-> 0,       \* history: when the attempt before that backoff ended
      call_start |-> 0,       \* when the pending session.get started
      attempts   |-> 0,       \* network attempts of the current request
      outcome    |-> "none",  \* what the latest attempt ended with
      result     |-> Pending, \* what the latest request returned
      done       |-> 0,       \* requests that have returned
      backoffs   |-> <<>>,    \* history: the failed attempts of the current request
                              \* that were retried, each with its wait_time
      issued_at  |-> 0 ]      \* when the first request was issued

GraphInit ==
    /\ graphs = EmptyMap
    /\ heap = <<>>
    /\ builds = [b \in BuildIds |-> IdleBuild]
    /\ long_fetches = 0
    /\ response = Pending

\* PubMedService.__init__: last_request_time = 0
ClientInit ==
    /\ now = Epoch
    /\ last_request_time = 0
    /\ tasks = [t \in TaskIds |-> IdleTask]
    /\ calls = 0
    /\ min_gap = -1

\* The graph service, its fetchers seen through what they return.
Init ==
    /\ GraphInit
    /\ ClientInit
    /\ quota = [t \in TaskIds |-> 0]
    /\ faults = 0

\* A build that is between two awaits holds the event loop: nothing else runs.
Running == \E b \in BuildIds : builds[b].pc = "loop"

\* build_graph activations that have started and not yet returned or raised
InProgress == {b \in BuildIds : builds[b].pc \in {"loop", "gather", "sleep"}}

\* The frontier of a build that was served long lists: such a build is the
\* only one in progress (a bound of the model, which keeps the interleavings
\* of two builds to those of short frontiers).
LongFrontier == 8
NoLongBuild == \A b \in InProgress : Len(builds[b].to_process) < LongFrontier

(***************************************************************************)
(* The store.                                                              *)
(***************************************************************************)
\* GraphService.create_graph (called by the POST /create route)
CreateGraph(graph_id, seed_pmid) ==
    /\ ~Running
    /\ Len(heap) < MaxGraphs
    /\ graph_id <= Len(heap) + 1          \* ids are handed out in order
    /\ heap' = Append(heap, NewGraph(graph_id, seed_pmid))
    /\ graphs' = (graph_id :> (Len(heap) + 1)) @@ graphs
    /\ UNCHANGED <<builds, long_fetches, cvars, qvars>>

\* (mutant) a delete that empties the store
RemoveGraphClears(graph_id) ==
    /\ ~Running
    /\ graphs' = IF graph_id \in DOMAIN graphs THEN EmptyMap ELSE graphs
    /\ UNCHANGED <<heap, builds, long_fetches, cvars>>

\* (mutant) a delete that makes the builds of the graph fail
RemoveGraphAborts(graph_id) ==
    /\ ~Running
    /\ graphs' = IF graph_id \in DOMAIN graphs
                   THEN [g \in DOMAIN graphs \ {graph_id} |-> graphs[g]]
                   ELSE graphs
    /\ builds' = [b \in DOMAIN builds |->
                    IF /\ graph_id \in DOMAIN graphs
                       /\ builds[b].pc \in {"loop", "gather", "sleep"}
                       /\ builds[b].graph = graphs[graph_id]
                      THEN [builds[b] EXCEPT !.pc = "raised", !.result = "KeyError"]
                      ELSE builds[b]]
    /\ UNCHANGED <<heap, long_fetches, cvars>>

\* routes/graph.py delete_graph, lines 76-77: del graph_service.graphs[graph_id]
\* when the id is there; the graph object lives on while a build holds it
RemoveGraph(graph_id) ==
    /\ ~Running
    /\ graphs' = IF graph_id \in DOMAIN graphs
                   THEN [g \in DOMAIN graphs \ {graph_id} |-> graphs[g]]
                   ELSE graphs
    /\ UNCHANGED <<heap, builds, long_fetches, cvars>>

\* routes/graph.py delete_graph, its answer left aside
DeleteGraph(graph_id) ==
    /\ RemoveGraph(graph_id)
    /\ UNCHANGED qvars

\* routes/graph.py delete_graph, lines 78-80: the answer
RouteDeleteGraph(graph_id) ==
    IF graph_id \in DOMAIN graphs
      THEN [status_code |-> 200, message |-> "deleted successfully", graph_id |-> graph_id]
      ELSE [status_code |-> 404, detail |-> "Graph not found"]

\* DELETE /{graph_id}, with its answer
CallDeleteGraph(graph_id) ==
    /\ RemoveGraph(graph_id)
    /\ response' = RouteDeleteGraph(graph_id)

\* GraphService.list_graphs: one summary per entry of self.graphs (in the
\* order of the ids, which is the order of their creation)
RECURSIVE Summaries(_)
Summaries(ids) ==
    IF ids = {} THEN <<>>
    ELSE LET graph_id == CHOOSE i \in ids : \A j \in ids : i <= j
             G == heap[graphs[graph_id]]
         IN  <<[ graph_id       |-> graph_id,
                 seed_pmid      |-> G.seed_pmid,
                 status         |-> G.status,
                 total_articles |-> G.total_articles ]>>
             \o Summaries(ids \ {graph_id})
ListGraphs == Summaries(DOMAIN graphs)


\* GraphService.get_graph_data: the nodes, the edges and the metadata.
GetGraphData(graph_id) ==
    IF graph_id \notin DOMAIN graphs THEN None
    ELSE LET G == heap[graphs[graph_id]] IN
         [ nodes |-> { [ id      |-> n,
                         title   |-> IF G.nodes[n].title = Absent
                                       THEN "placeholder" ELSE G.nodes[n].title,
                         journal |-> G.nodes[n].journal,
                         is_seed |-> (n = G.seed_pmid) ] : n \in DOMAIN G.nodes },
           edges |-> { [ source |-> e[1], target |-> e[2], type |-> G.edges[e] ]
                       : e \in DOMAIN G.edges },
           metadata |-> [ graph_id            |-> graph_id,
                          seed_pmid           |-> G.seed_pmid,
                          status              |-> G.status,
                          total_articles      |-> G.total_articles,
                          total_relationships |-> Cardinality(DOMAIN G.edges),
                          completed_at        |-> G.completed_at,
                          limit_reached       |-> G.limit_reached ] ]

\* GraphService.get_graph_status
GetGraphStatus(graph_id) ==
    IF graph_id \notin DOMAIN graphs THEN None
    ELSE LET G == heap[graphs[graph_id]] IN
         [ graph_id           |-> graph_id,
           status             |-> G.status,
           total_articles     |-> G.total_articles,
           processed_articles |-> G.processed_articles,
           completed_at       |-> G.completed_at,
           limit_reached      |-> G.limit_reached ]

(***************************************************************************)
(* GraphAnalyticsService, over networkx. Numbers are rationals in lowest   *)
(* terms, so that a number and None can be told apart by their shape.      *)
(***************************************************************************)
RECURSIVE GCD(_, _)
GCD(a, b) == IF b = 0 THEN a ELSE GCD(b, a % b)

Ratio(a, b) == [num |-> a \div GCD(a, b), den |-> b \div GCD(a, b)]
Number(n) == Ratio(n, 1)
Zero == Number(0)
RatioAdd(x, y) == Ratio(x.num * y.den + y.num * x.den, x.den * y.den)

RECURSIVE RatioSum(_, _)
RatioSum(f, S) ==
    IF S = {} THEN Zero
    ELSE LET x == CHOOSE y \in S : TRUE IN RatioAdd(f[x], RatioSum(f, S \ {x}))

RECURSIVE Sum(_, _)
Sum(f, S) ==
    IF S = {} THEN 0
    ELSE LET x == CHOOSE y \in S : TRUE IN f[x] + Sum(f, S \ {x})

Max(S) == CHOOSE x \in S : \A y \in S : y <= x
Least(S) == CHOOSE x \in S : \A y \in S : x <= y

\* (mutant) the degree as the number of distinct neighbours
DegreeNeighbours(G, n) ==
    Cardinality({e[2] : e \in {d \in DOMAIN G.edges : d[1] = n}}
                \cup {e[1] : e \in {d \in DOMAIN G.edges : d[2] = n}})

\* nx.DiGraph: successors, predecessors, degrees (a self-loop counts in both).
Successors(G, n) == {e[2] : e \in {d \in DOMAIN G.edges : d[1] = n}}
Predecessors(G, n) == {e[1] : e \in {d \in DOMAIN G.edges : d[2] = n}}
OutDegree(G, n) == Cardinality(Successors(G, n))
InDegree(G, n) == Cardinality(Predecessors(G, n))
Degree(G, n) == InDegree(G, n) + OutDegree(G, n)

\* graph.subgraph(S) and graph.to_undirected(), as far as the analytics reads them
Subgraph(G, S) ==
    [ nodes |-> [n \in DOMAIN G.nodes \cap S |-> G.nodes[n]],
      edges |-> [e \in {d \in DOMAIN G.edges : d[1] \in S /\ d[2] \in S} |-> G.edges[e]] ]

ToUndirected(G) ==
    [ nodes |-> G.nodes,
      edges |-> [e \in DOMAIN G.edges \cup {<<d[2], d[1]>> : d \in DOMAIN G.edges}
                    |-> "undirected"] ]

\* nx.shortest_path_length(G, source): the pairs <<target, length>>, breadth first
RECURSIVE Layers(_, _, _, _)
Layers(G, seen, frontier, d) ==
    IF frontier = {} THEN {}
    ELSE LET next == UNION {Successors(G, n) : n \in frontier} \ seen
         IN  {<<n, d>> : n \in frontier} \cup Layers(G, seen \cup next, next, d + 1)

ShortestPathLength(G, source) == Layers(G, {source}, {source}, 0)
Reachable(G, source) == {p[1] : p \in ShortestPathLength(G, source)}

\* nx.strongly_connected_components, nx.weakly_connected_components
StronglyConnectedComponents(G) ==
    { {m \in DOMAIN G.nodes : m \in Reachable(G, n) /\ n \in Reachable(G, m)}
        : n \in DOMAIN G.nodes }
WeaklyConnectedComponents(G) == StronglyConnectedComponents(ToUndirected(G))

\* max(components, key=len); among components of the same size the first
\* that networkx yields
Largest(components) ==
    CHOOSE c \in components : \A d \in components : Cardinality(d) <= Cardinality(c)

\* nx.density: m / (n * (n - 1)), and 0 when there is no edge or at most one node
Density(G) ==
    LET n == Cardinality(DOMAIN G.nodes)
        m == Cardinality(DOMAIN G.edges)
    IN  IF m = 0 \/ n <= 1 THEN Zero ELSE Ratio(m, n * (n - 1))

\* nx.eccentricity, nx.diameter, nx.radius of a strongly connected graph
Eccentricity(G, n) == Max({p[2] : p \in ShortestPathLength(G, n)})
Diameter(G) == Max({Eccentricity(G, n) : n \in DOMAIN G.nodes})
Radius(G) == Least({Eccentricity(G, n) : n \in DOMAIN G.nodes})

\* nx.average_shortest_path_length of a strongly connected graph: 0 for the
\* graph of one node, else the sum of the lengths over n * (n - 1)
AverageShortestPathLength(G) ==
    LET n == Cardinality(DOMAIN G.nodes)
        total == [v \in DOMAIN G.nodes |->
                    LET P == ShortestPathLength(G, v)
                    IN  Sum([p \in P |-> p[2]], P)]
    IN  IF n = 1 THEN Zero ELSE Ratio(Sum(total, DOMAIN G.nodes), n * (n - 1))

\* nx.clustering of the undirected graph: for a node with d >= 2 neighbours
\* (itself apart), the linked pairs of neighbours over d * (d - 1) / 2
Clustering(U, v) ==
    LET nbrs == Successors(U, v) \ {v}
        d == Cardinality(nbrs)
        links == Cardinality({e \in DOMAIN U.edges :
                                e[1] \in nbrs /\ e[2] \in nbrs /\ e[1] # e[2]})
    IN  IF d < 2 THEN Zero ELSE Ratio(links, d * (d - 1))

\* nx.average_clustering (division by zero on the graph without nodes)
AverageClustering(U) ==
    LET total == RatioSum([v \in DOMAIN U.nodes |-> Clustering(U, v)], DOMAIN U.nodes)
    IN  Ratio(total.num, total.den * Cardinality(DOMAIN U.nodes))

\* Lines 58-74: _get_basic_statistics; nx.is_weakly_connected raises on the
\* graph without nodes, and the handler returns {}.
GetBasicStatistics(G) ==
    LET n == Cardinality(DOMAIN G.nodes)
        degrees == {Degree(G, v) : v \in DOMAIN G.nodes}
        components == WeaklyConnectedComponents(G)
    IN  IF n = 0 THEN EmptyMap
        ELSE [ total_nodes            |-> Number(n),
               total_edges            |-> Number(Cardinality(DOMAIN G.edges)),
               density                |-> Density(G),
               average_degree         |-> Ratio(Sum([v \in DOMAIN G.nodes |-> Degree(G, v)],
                                                    DOMAIN G.nodes), n),
               max_degree             |-> Number(Max(degrees)),
               min_degree             |-> Number(Least(degrees)),
               is_connected           |-> Cardinality(components) = 1,
               number_of_components   |-> Number(Cardinality(components)),
               largest_component_size |-> Number(Cardinality(Largest(components))) ]

\* Lines 126-165: _analyze_clustering (the community detection apart);
\* average_clustering raises on the graph without nodes: {}.
AnalyzeClustering(G) ==
    LET U == ToUndirected(G) IN
    IF DOMAIN G.nodes = {} THEN EmptyMap
    ELSE [ global_clustering        |-> AverageClustering(U),
           local_clustering         |-> [v \in DOMAIN U.nodes |-> Clustering(U, v)],
           average_local_clustering |-> AverageClustering(U) ]

\* Lines 167-219: _analyze_paths; nx.is_strongly_connected raises on the
\* graph without nodes: {}.
AnalyzePaths(G) ==
    IF DOMAIN G.nodes = {} THEN EmptyMap
    ELSE
    LET components == StronglyConnectedComponents(G)
        largest_cc == Largest(components)
        subgraph == Subgraph(G, largest_cc)
        whole == Cardinality(components) = 1      \* nx.is_strongly_connected
        some == Cardinality(largest_cc) > 1
    IN  [ average_shortest_path |->
              IF whole THEN AverageShortestPathLength(G)
              ELSE IF some THEN AverageShortestPathLength(subgraph) ELSE None,
          diameter |->
              IF whole THEN Number(Diameter(G))
              ELSE IF some THEN Number(Diameter(subgraph)) ELSE None,
          eccentricity |->
              IF some THEN [n \in largest_cc |-> Number(Eccentricity(subgraph, n))]
              ELSE EmptyMap,
          radius |-> IF some THEN Number(Radius(subgraph)) ELSE None ]

\* np.mean of a list: nan for the empty list (a warning, no exception)
NaN == [nan |-> TRUE]
Mean(f, S) == IF S = {} THEN NaN ELSE Ratio(Sum(f, S), Cardinality(S))

\* What a numerical centrality (betweenness, closeness, eigenvector,
\* pagerank, hits) returns: a score for every node, its value not modelled;
\* {} for the graph without nodes, whether the computation raised or not.
Score == [score |-> TRUE]
Scores(G) == [n \in DOMAIN G.nodes |-> Score]

\* nx.degree_centrality: 1 for every node of a graph of at most one node,
\* else degree / (n - 1)
DegreeCentrality(G) ==
    LET n == Cardinality(DOMAIN G.nodes) IN
    [v \in DOMAIN G.nodes |-> IF n <= 1 THEN Number(1) ELSE Ratio(Degree(G, v), n - 1)]

\* Lines 76-124: _calculate_centrality_measures
CalculateCentralityMeasures(G) ==
    [ degree_centrality      |-> DegreeCentrality(G),
      betweenness_centrality |-> Scores(G),
      closeness_centrality   |-> Scores(G),
      eigenvector_centrality |-> Scores(G),
      pagerank               |-> Scores(G),
      hubs                   |-> Scores(G),
      authorities            |-> Scores(G) ]

\* nx.reciprocity: the share of edges whose reverse is an edge too (a
\* self-loop is not one); NetworkXError on the graph without edges
Reciprocity(G) ==
    LET m == Cardinality(DOMAIN G.edges)
        undirected == Cardinality({{e[1], e[2]} : e \in DOMAIN G.edges})
    IN  IF m = 0 THEN None ELSE Ratio(2 * (m - undirected), m)

\* (mutant) the threshold reached counts as exceeded
ExceedsMeanOrEqual(degree, total, n) == 2 * degree * n >= 3 * total

\* degree > mean * 1.5, for the mean total / n of the degrees
ExceedsMean(degree, total, n) == 2 * degree * n > 3 * total

\* Lines 221-276: _analyze_network_structure (median, std, assortativity and
\* transitivity apart); hubs and authorities as sets
AnalyzeNetworkStructure(G) ==
    LET V == DOMAIN G.nodes
        n == Cardinality(V)
        degrees == [v \in V |-> Degree(G, v)]
        in_degrees == [v \in V |-> InDegree(G, v)]
        out_degrees == [v \in V |-> OutDegree(G, v)]
    IN  [ degree_distribution |->
              [ mean |-> Mean(degrees, V),
                min  |-> IF V = {} THEN Zero ELSE Number(Least({degrees[v] : v \in V})),
                max  |-> IF V = {} THEN Zero ELSE Number(Max({degrees[v] : v \in V})) ],
          reciprocity |-> Reciprocity(G),
          node_types |->
              [ hubs           |-> {v \in V : ExceedsMean(out_degrees[v], Sum(out_degrees, V), n)},
                authorities    |-> {v \in V : ExceedsMean(in_degrees[v], Sum(in_degrees, V), n)},
                avg_out_degree |-> Mean(out_degrees, V),
                avg_in_degree  |-> Mean(in_degrees, V) ] ]

\* sorted(key=..., reverse=True): by decreasing key; equal keys keep the
\* order of graph.nodes(), which is taken to be that of the identifiers
RECURSIVE SortedDescending(_, _)
SortedDescending(S, key) ==
    IF S = {} THEN <<>>
    ELSE LET x == CHOOSE a \in S : \A b \in S :
                      key[a] > key[b] \/ (key[a] = key[b] /\ a <= b)
         IN  <<x>> \o SortedDescending(S \ {x}, key)

\* (mutant) the whole list
Head5All(list) == list

\* list[:k]
Head5(list) == SubSeq(list, 1, IF Len(list) < 5 THEN Len(list) ELSE 5)

\* Lines 278-319: _generate_research_insights (the rankings by pagerank and
\* by betweenness apart); well_connected_clusters only for a graph with nodes
GenerateResearchInsights(G, centrality_measures) ==
    LET V == DOMAIN G.nodes
        out_degrees == [v \in V |-> OutDegree(G, v)]
        emerging == {v \in V : OutDegree(G, v) > 2 /\ InDegree(G, v) <= 1}
        sorted == SortedDescending(emerging, out_degrees)
        components == {c \in WeaklyConnectedComponents(G) : Cardinality(c) >= 3}
        \* well_connected[:3]: the components come in the order of their
        \* first node
        well_connected ==
            {c \in components :
                Cardinality({d \in components : Least(d) < Least(c)}) < 3}
    IN  ("emerging_topics" :>
            Head5([i \in DOMAIN sorted |->
                     <<sorted[i], OutDegree(G, sorted[i]), InDegree(G, sorted[i])>>]))
        @@ ("isolated_nodes" :> {v \in V : Degree(G, v) = 0})
        @@ (IF V # {} THEN "well_connected_clusters" :> well_connected ELSE EmptyMap)

\* Lines 321-354: _generate_summary (the best papers by pagerank and by
\* betweenness and the community count apart); nx.is_weakly_connected raises
\* on the graph without nodes: {}.
GenerateSummary(G, centrality_measures, clustering_analysis) ==
    IF DOMAIN G.nodes = {} THEN EmptyMap
    ELSE ("key_metrics" :>
             [ total_articles    |-> Number(Cardinality(DOMAIN G.nodes)),
               total_connections |-> Number(Cardinality(DOMAIN G.edges)),
               network_density   |-> Density(G),
               is_connected      |-> Cardinality(WeaklyConnectedComponents(G)) = 1 ])
         @@ (IF "global_clustering" \in DOMAIN clustering_analysis
               THEN "clustering_coefficient" :> clustering_analysis.global_clustering
               ELSE EmptyMap)

Facets ==
    {"basic_statistics", "centrality_measures", "clustering_analysis", "path_analysis",
     "network_structure", "research_insights", "summary"}

\* (mutant) a facet that failed makes the whole analysis fail
AnalyzeGraphAborts(G) ==
    IF DOMAIN G.nodes = {} THEN [error |-> "PointlessConcept"]
    ELSE LET centrality_measures == CalculateCentralityMeasures(G)
             clustering_analysis == AnalyzeClustering(G)
         IN  [ basic_statistics    |-> GetBasicStatistics(G),
               centrality_measures |-> centrality_measures,
               clustering_analysis |-> clustering_analysis,
               path_analysis       |-> AnalyzePaths(G),
               network_structure   |-> AnalyzeNetworkStructure(G),
               research_insights   |-> GenerateResearchInsights(G, centrality_measures),
               summary             |-> GenerateSummary(G, centrality_measures, clustering_analysis) ]

\* Lines 15-56: analyze_graph. Every facet is computed by a method that
\* catches its own exceptions, so the handler of lines 54-56 is never entered.
AnalyzeGraph(G) ==
    LET centrality_measures == CalculateCentralityMeasures(G)
        clustering_analysis == AnalyzeClustering(G)
    IN  [ basic_statistics    |-> GetBasicStatistics(G),
          centrality_measures |-> centrality_measures,
          clustering_analysis |-> clustering_analysis,
          path_analysis       |-> AnalyzePaths(G),
          network_structure   |-> AnalyzeNetworkStructure(G),
          research_insights   |-> GenerateResearchInsights(G, centrality_measures),
          summary             |-> GenerateSummary(G, centrality_measures, clustering_analysis) ]

\* (mutant) no membership test: the degrees of a node the graph lacks
NodeAnalyticsNoCheck(G, node_id) ==
    [ node_id      |-> node_id,
      degree       |-> Number(Degree(G, node_id)),
      in_degree    |-> Number(InDegree(G, node_id)),
      out_degree   |-> Number(OutDegree(G, node_id)),
      neighbors    |-> Successors(G, node_id),
      predecessors |-> Predecessors(G, node_id),
      successors   |-> Successors(G, node_id) ]

\* Lines 356-383: GraphAnalyticsService.get_node_analytics, the degrees and
\* the neighbourhoods.
NodeAnalytics(G, node_id) ==
    IF node_id \notin DOMAIN G.nodes
      THEN [error |-> "Node not found in graph"]
      ELSE [ node_id      |-> node_id,
             degree       |-> Number(Degree(G, node_id)),
             in_degree    |-> Number(InDegree(G, node_id)),
             out_degree   |-> Number(OutDegree(G, node_id)),
             neighbors    |-> Successors(G, node_id),
             predecessors |-> Predecessors(G, node_id),
             successors   |-> Successors(G, node_id) ]

\* (mutant) analytics of every stored graph
GetGraphAnalyticsAnyStatus(graph_id) ==
    IF graph_id \notin DOMAIN graphs THEN None
    ELSE AnalyzeGraph(heap[graphs[graph_id]])

\* Lines 211-229: GraphService.get_graph_analytics
NotReady == [error |-> "Graph analysis only available for completed graphs"]

GetGraphAnalytics(graph_id) ==
    IF graph_id \notin DOMAIN graphs THEN None
    ELSE LET G == heap[graphs[graph_id]] IN
         IF G.status \notin {"completed", "completed_with_limit"} THEN NotReady
         ELSE AnalyzeGraph(G)

\* (mutant) no lookup of the graph id
GetNodeAnalyticsNoLookup(graph_id, node_id) ==
    IF graph_id \notin DOMAIN graphs THEN [error |-> "KeyError"]
    ELSE NodeAnalytics(heap[graphs[graph_id]], node_id)

\* Lines 231-243: GraphService.get_node_analytics
GetNodeAnalytics(graph_id, node_id) ==
    IF graph_id \notin DOMAIN graphs THEN None
    ELSE NodeAnalytics(heap[graphs[graph_id]], node_id)

\* routes/graph.py: the four query routes answer 404 when the service
\* returned nothing ("if not x"), and 200 with the value otherwise.
Falsy(x) == x = None \/ x = EmptyMap
RouteResponse(x) == IF Falsy(x) THEN [status_code |-> 404] ELSE [status_code |-> 200, body |-> x]
RouteGetGraphStatus(graph_id) == RouteResponse(GetGraphStatus(graph_id))
RouteGetGraphData(graph_id) == RouteResponse(GetGraphData(graph_id))
RouteGetGraphAnalytics(graph_id) == RouteResponse(GetGraphAnalytics(graph_id))
RouteGetNodeAnalytics(graph_id, node_id) == RouteResponse(GetNodeAnalytics(graph_id, node_id))

(***************************************************************************)
(* build_graph.                                                            *)
(***************************************************************************)
\* (mutant) a missing graph is created on the fly and the error names nothing
BuildGraphLenient(b, graph_id, max_depth) ==
    /\ ~Running
    /\ builds[b].pc = "idle"
    /\ \A a \in 1..(b - 1) : builds[a].pc # "idle"
    /\ NoLongBuild
    /\ IF graph_id \notin DOMAIN graphs
         THEN /\ builds' = [builds EXCEPT ![b].pc = "raised",
                                          ![b].result = "KeyError"]
              /\ heap' = Append(heap, NewGraph(graph_id, 1))
         ELSE LET g == graphs[graph_id] IN
              /\ builds' = [builds EXCEPT ![b] =
                    [ pc              |-> "loop",
                      graph_id        |-> graph_id,
                      graph           |-> g,
                      seed_pmid       |-> heap[g].seed_pmid,
                      processed_pmids |-> {},
                      to_process      |-> << <<heap[g].seed_pmid, 0>> >>,
                      current_pmid    |-> 0,
                      result          |-> "none",
                      exit_processed  |-> 0,
                      exit_frontier   |-> 0,
                      failed          |-> {},
                      fetched         |-> [references |-> <<>>, citations |-> <<>>],
                      max_depth       |-> max_depth,
                      order           |-> <<>> ]]
              /\ heap' = [heap EXCEPT ![g].status = "building"]
    /\ UNCHANGED <<graphs, long_fetches, cvars, qvars>>

\* Lines 40-53: the lookup, the locals, status = 'building'.
BuildGraph(b, graph_id, max_depth) ==
    /\ ~Running
    /\ builds[b].pc = "idle"
    /\ \A a \in 1..(b - 1) : builds[a].pc # "idle"
    /\ NoLongBuild
    /\ IF graph_id \notin DOMAIN graphs
         THEN /\ builds' = [builds EXCEPT ![b].pc = "raised",
                                          ![b].graph_id = graph_id,
                                          ![b].result = "ValueError"]
              /\ UNCHANGED heap
         ELSE LET g == graphs[graph_id] IN
              /\ builds' = [builds EXCEPT ![b] =
                    [ pc              |-> "loop",
                      graph_id        |-> graph_id,
                      graph           |-> g,
                      seed_pmid       |-> heap[g].seed_pmid,
                      processed_pmids |-> {},
                      to_process      |-> << <<heap[g].seed_pmid, 0>> >>,
                      current_pmid    |-> 0,
                      result          |-> "none",
                      exit_processed  |-> 0,
                      exit_frontier   |-> 0,
                      failed          |-> {},
                      fetched         |-> [references |-> <<>>, citations |-> <<>>],
                      max_depth       |-> max_depth,
                      order           |-> <<>> ]]
              /\ heap' = [heap EXCEPT ![g].status = "building"]
    /\ UNCHANGED <<graphs, long_fetches, cvars, qvars>>

\* Line 55: the while condition.
LoopCondition(B) ==
    B.to_process # <<>> /\ Cardinality(B.processed_pmids) < MAX_ARTICLES

\* (mutant) the head is read and left in the frontier
LoopSkipNoPop(b) ==
    LET B == builds[b] IN
    /\ B.pc = "loop"
    /\ B.to_process # <<>> /\ Cardinality(B.processed_pmids) < MAX_ARTICLES
    /\ Head(B.to_process)[1] \in B.processed_pmids
    /\ builds' = [builds EXCEPT ![b].current_pmid = Head(B.to_process)[1]]
    /\ UNCHANGED <<graphs, heap, long_fetches, cvars, qvars>>

\* Lines 56-59: pop the head; an id already processed is skipped.
LoopSkip(b) ==
    LET B == builds[b] IN
    /\ B.pc = "loop"
    /\ LoopCondition(B)
    /\ Head(B.to_process)[1] \in B.processed_pmids
    /\ builds' = [builds EXCEPT ![b].to_process = Tail(B.to_process),
                                ![b].current_pmid = Head(B.to_process)[1]]
    /\ UNCHANGED <<graphs, heap, long_fetches, cvars, qvars>>

\* (mutant) the frontier as a stack: the entry enqueued last is taken
LoopProcessLifo(b) ==
    LET B == builds[b]
        last == Len(B.to_process)
    IN
    /\ B.pc = "loop"
    /\ LoopCondition(B)
    /\ B.to_process[last][1] \notin B.processed_pmids
    /\ builds' = [builds EXCEPT
            ![b].to_process = SubSeq(B.to_process, 1, last - 1),
            ![b].current_pmid = B.to_process[last][1],
            ![b].processed_pmids = B.processed_pmids \cup {B.to_process[last][1]},
            ![b].order = Append(B.order, B.to_process[last][1]),
            ![b].pc = "gather"]
    /\ heap' = [heap EXCEPT ![B.graph].processed_articles = @ + 1]
    /\ UNCHANGED <<graphs, long_fetches, cvars, qvars>>

\* (mutant) no test of processed_pmids: an id met again is fetched again
LoopProcessAgain(b) ==
    LET B == builds[b] IN
    /\ B.pc = "loop"
    /\ LoopCondition(B)
    /\ builds' = [builds EXCEPT
            ![b].to_process = Tail(B.to_process),
            ![b].current_pmid = Head(B.to_process)[1],
            ![b].processed_pmids = B.processed_pmids \cup {Head(B.to_process)[1]},
            ![b].order = Append(B.order, Head(B.to_process)[1]),
            ![b].pc = "gather"]
    /\ heap' = [heap EXCEPT ![B.graph].processed_articles = @ + 1]
    /\ UNCHANGED <<graphs, long_fetches, cvars, qvars>>

\* Lines 56-71: pop the head, mark it processed, count it, start the fetches.
LoopProcess(b) ==
    LET B == builds[b] IN
    /\ B.pc = "loop"
    /\ LoopCondition(B)
    /\ Head(B.to_process)[1] \notin B.processed_pmids
    /\ builds' = [builds EXCEPT
            ![b].to_process = Tail(B.to_process),
            ![b].current_pmid = Head(B.to_process)[1],
            ![b].processed_pmids = B.processed_pmids \cup {Head(B.to_process)[1]},
            ![b].order = Append(B.order, Head(B.to_process)[1]),
            ![b].pc = "gather"]
    /\ heap' = [heap EXCEPT ![B.graph].processed_articles = @ + 1]
    /\ UNCHANGED <<graphs, long_fetches, cvars, qvars>>

\* (mutant) the limit test with > for >=
FinishStatusStrict(B) ==
    IF Cardinality(B.processed_pmids) > MAX_ARTICLES
      THEN "completed_with_limit"
      ELSE "completed"

\* Lines 109-118: the terminal status and the completion time.
FinishStatus(B) ==
    IF Cardinality(B.processed_pmids) >= MAX_ARTICLES
      THEN "completed_with_limit"
      ELSE "completed"

LoopExit(b) ==
    LET B == builds[b] IN
    /\ B.pc = "loop"
    /\ ~LoopCondition(B)
    /\ heap' = [heap EXCEPT
            ![B.graph].status = FinishStatus(B),
            ![B.graph].limit_reached =
                IF FinishStatus(B) = "completed_with_limit" THEN TRUE ELSE @,
            ![B.graph].completed_at = TRUE]
    /\ builds' = [builds EXCEPT ![b] =
            [IdleBuild EXCEPT !.pc = "done",
                              !.graph_id = B.graph_id,
                              !.graph = B.graph,
                              !.result = FinishStatus(B),
                              !.exit_processed = Cardinality(B.processed_pmids),
                              !.exit_frontier = Len(B.to_process),
                              !.failed = B.failed,
                              !.fetched = B.fetched,
                              !.max_depth = B.max_depth,
                              !.order = B.order]]
    /\ UNCHANGED <<graphs, long_fetches, cvars, qvars>>

\* (mutant) neighbours enqueued one level below the article that was processed
EnqueuedDeeper(B, pmids) ==
    SelectSeq([i \in DOMAIN pmids |-> <<pmids[i], 2>>],
              LAMBDA e : e[1] \notin B.processed_pmids)

\* The frontier entries a list of neighbours adds: one (pmid, 1) per element
\* that is not processed, in the list's order, repeats included.
Enqueued(B, pmids) ==
    SelectSeq([i \in DOMAIN pmids |-> <<pmids[i], 1>>],
              LAMBDA e : e[1] \notin B.processed_pmids)

\* (mutant) a graph that keeps every inserted edge: a repeated reference adds
\* a parallel edge, keyed by its position in the list
AddReferencesParallel(st, B, refs) ==
    LET repeats == {i \in DOMAIN refs : \E j \in 1..(i - 1) : refs[j] = refs[i]}
        G == AddEdges(st.g, {<<B.current_pmid, refs[i]>> : i \in DOMAIN refs}, "cites")
    IN  [ g |-> [G EXCEPT !.edges =
                    [e \in DOMAIN G.edges \cup {<<B.current_pmid, refs[i], i>> : i \in repeats} |->
                        IF e \in DOMAIN G.edges THEN G.edges[e] ELSE "cites"]],
          q |-> st.q \o Enqueued(B, refs) ]

\* Lines 85-89: the loop over relationships['references']. processed_pmids
\* does not change inside the loop, so its guard is the same for every
\* element and the loop's effect is that of all its iterations at once.
AddReferences(st, B, refs) ==
    IF Cardinality(B.processed_pmids) < MAX_ARTICLES
      THEN [ g |-> AddEdges(st.g, {<<B.current_pmid, refs[i]>> : i \in DOMAIN refs}, "cites"),
             q |-> st.q \o Enqueued(B, refs) ]
      ELSE st

\* (mutant) the citing works get their edges and are not enqueued
AddCitationsNoEnqueue(st, B, cits) ==
    IF Cardinality(B.processed_pmids) < MAX_ARTICLES
      THEN [ g |-> AddEdges(st.g, {<<cits[i], B.current_pmid>> : i \in DOMAIN cits}, "cited_by"),
             q |-> st.q ]
      ELSE st

\* Lines 92-96: the loop over relationships['citations'], likewise.
AddCitations(st, B, cits) ==
    IF Cardinality(B.processed_pmids) < MAX_ARTICLES
      THEN [ g |-> AddEdges(st.g, {<<cits[i], B.current_pmid>> : i \in DOMAIN cits}, "cited_by"),
             q |-> st.q \o Enqueued(B, cits) ]
      ELSE st

\* (mutant) total_articles left as it was
ProcessArticleStale(G, B, article_details, relationships) ==
    LET G1 == AddNode(G, B.current_pmid,
                      IF article_details THEN DetailsAttrs ELSE PlaceholderAttrs)
        st0 == [g |-> G1, q |-> B.to_process]
    IN  IF B.current_pmid = B.seed_pmid
          THEN AddCitations(AddReferences(st0, B, relationships.references),
                            B, relationships.citations)
          ELSE st0

\* Lines 73-99: the node, the seed's edges, total_articles.
ProcessArticle(G, B, article_details, relationships) ==
    LET G1 == AddNode(G, B.current_pmid,
                      IF article_details THEN DetailsAttrs ELSE PlaceholderAttrs)
        st0 == [g |-> G1, q |-> B.to_process]
        st2 == IF B.current_pmid = B.seed_pmid
                 THEN AddCitations(AddReferences(st0, B, relationships.references),
                                   B, relationships.citations)
                 ELSE st0
    IN  [ g |-> [st2.g EXCEPT !.total_articles = Cardinality(DOMAIN st2.g.nodes)],
          q |-> st2.q ]

\* What the two fetches of line 68 may return for the article being processed:
\* metadata or None, and for the seed its relationship lists (those of
\* another article are never read).
FetchResults(B) ==
    IF B.current_pmid = B.seed_pmid
      THEN [article_details : BOOLEAN, relationships : ShortRelationships]
           \cup (IF long_fetches < MaxLongFetches /\ Cardinality(InProgress) = 1
                   THEN [article_details : {TRUE}, relationships : LongRelationships]
                   ELSE {})
      ELSE [article_details : IF B.current_pmid \in FlakyPmids THEN BOOLEAN ELSE {TRUE},
            relationships : {NoRelationships}]

\* Lines 68-102: asyncio.gather returns; the build goes on to asyncio.sleep(0.2).
GatherReturn(b) ==
    LET B == builds[b] IN
    /\ ~Running
    /\ B.pc = "gather"
    /\ \E r \in FetchResults(B) :
          LET st == ProcessArticle(heap[B.graph], B, r.article_details, r.relationships) IN
          /\ heap' = [heap EXCEPT ![B.graph] = st.g]
          /\ builds' = [builds EXCEPT
                  ![b].to_process = st.q,
                  ![b].pc = "sleep",
                  ![b].fetched = IF B.current_pmid = B.seed_pmid
                                   THEN r.relationships ELSE @]
          /\ long_fetches' = IF r.relationships \in LongRelationships
                               THEN long_fetches + 1 ELSE long_fetches
    /\ UNCHANGED <<graphs, cvars, qvars>>

\* (mutant) the exception leaves build_graph
GatherRaiseAborts(b) ==
    LET B == builds[b] IN
    /\ ~Running
    /\ B.pc = "gather"
    /\ B.current_pmid \in FlakyPmids
    /\ builds' = [builds EXCEPT ![b].pc = "raised",
                                ![b].failed = @ \cup {B.current_pmid}]
    /\ UNCHANGED <<graphs, heap, long_fetches, cvars, qvars>>

\* Lines 104-107: the fetches raise; the error is logged and the loop continues.
GatherRaise(b) ==
    LET B == builds[b] IN
    /\ ~Running
    /\ B.pc = "gather"
    /\ B.current_pmid \in FlakyPmids
    /\ builds' = [builds EXCEPT ![b].pc = "loop",
                                ![b].failed = @ \cup {B.current_pmid}]
    /\ UNCHANGED <<graphs, heap, long_fetches, cvars, qvars>>

\* Line 102: asyncio.sleep(0.2) returns.
SleepReturn(b) ==
    /\ ~Running
    /\ builds[b].pc = "sleep"
    /\ builds' = [builds EXCEPT ![b].pc = "loop"]
    /\ UNCHANGED <<graphs, heap, long_fetches, cvars, qvars>>

Next ==
    \/ \E graph_id \in GraphIds, seed_pmid \in SeedPmids : CreateGraph(graph_id, seed_pmid)
    \/ \E graph_id \in GraphIds : DeleteGraph(graph_id)
    \/ \E b \in BuildIds, graph_id \in GraphIds : BuildGraph(b, graph_id, DEFAULT_MAX_DEPTH)
    \/ \E b \in BuildIds : LoopSkip(b)
    \/ \E b \in BuildIds : LoopProcess(b)
    \/ \E b \in BuildIds : LoopExit(b)
    \/ \E b \in BuildIds : GatherReturn(b)
    \/ \E b \in BuildIds : GatherRaise(b)
    \/ \E b \in BuildIds : SleepReturn(b)

Spec == Init /\ [][Next]_vars

\* The store with the answers of its delete route, its builds served the
\* short lists only.
StoreInit ==
    /\ graphs = EmptyMap
    /\ heap = <<>>
    /\ builds = [b \in BuildIds |-> IdleBuild]
    /\ long_fetches = MaxLongFetches
    /\ response = Pending
    /\ ClientInit
    /\ quota = [t \in TaskIds |-> 0]
    /\ faults = 0

StoreNext ==
    \/ \E graph_id \in GraphIds, seed_pmid \in SeedPmids : CreateGraph(graph_id, seed_pmid)
    \/ \E graph_id \in GraphIds : CallDeleteGraph(graph_id)
    \/ \E b \in BuildIds, graph_id \in GraphIds : BuildGraph(b, graph_id, DEFAULT_MAX_DEPTH)
    \/ \E b \in BuildIds : LoopSkip(b)
    \/ \E b \in BuildIds : LoopProcess(b)
    \/ \E b \in BuildIds : LoopExit(b)
    \/ \E b \in BuildIds : GatherReturn(b)
    \/ \E b \in BuildIds : GatherRaise(b)
    \/ \E b \in BuildIds : SleepReturn(b)

StoreSpec == StoreInit /\ [][StoreNext]_vars

(***************************************************************************)
(* PubMedService: the rate limiter and _make_request.                      *)
(***************************************************************************)
\* random.uniform(0, 0.1) of _rate_limit and random.uniform(0, 1) of the
\* backoff: the ends of each range (the second one is never reached).
RateJitter == {0, 1}
BackoffJitter == {0, 9}

\* What one network attempt ends with: a status, a timeout, a transport error.
Outcomes == {"200", "429", "500", "timeout", "error"}

Min(S) == CHOOSE x \in S : \A y \in S : x <= y

\* Line 40: session.get starts; the call is recorded in the history.
StartCall(T) ==
    [T EXCEPT !.pc = "get", !.call_start = now, !.wake = 0,
              !.attempts = @ + 1, !.outcome = "none"]

LogCall ==
    /\ calls' = calls + 1
    /\ min_gap' = IF calls = 0 THEN min_gap
                  ELSE IF min_gap = -1 THEN now - last_request_time
                  ELSE Min({min_gap, now - last_request_time})

\* (mutant) a limiter that never waits
RateLimitNoSleep(jitter) == 0

\* Lines 23-31: how long _rate_limit sleeps (0: it does not).
RateLimitSleep(jitter) ==
    LET time_since_last == now - last_request_time
        required_delay == RATE_LIMIT_DELAY + jitter
    IN  IF time_since_last < required_delay
          THEN required_delay - time_since_last
          ELSE 0

\* Lines 37-40: _make_request enters _rate_limit, which either suspends or
\* sets last_request_time and lets the network call start.
EnterRequest(t, T) ==
    \E jitter \in RateJitter :
        IF RateLimitSleep(jitter) > 0
          THEN /\ tasks' = [tasks EXCEPT ![t] =
                      [T EXCEPT !.pc = "rate_limit",
                                !.outcome = "none",
                                !.wake = now + RateLimitSleep(jitter)]]
               /\ UNCHANGED <<last_request_time, calls, min_gap>>
          ELSE /\ tasks' = [tasks EXCEPT ![t] = StartCall(T)]
               /\ last_request_time' = now
               /\ LogCall

\* A caller issues a request: _make_request(session, url), retries = 0.
MakeRequest(t) ==
    /\ tasks[t].pc = "idle"
    /\ quota[t] > 0
    /\ \A u \in 1..(t - 1) : quota[u] < quota[t] \/ quota[u] = 0   \* callers start in order
    /\ quota' = [quota EXCEPT ![t] = @ - 1]
    /\ EnterRequest(t, [tasks[t] EXCEPT
            !.retries = 0, !.attempts = 0, !.result = Pending, !.wait = 0,
            !.failed_at = 0, !.backoffs = <<>>,
            !.issued_at = IF tasks[t].done = 0 THEN now ELSE @])
    /\ UNCHANGED <<now, faults, gvars, qvars>>

\* Lines 31-33, 40: the sleep of _rate_limit is over.
RateLimitWake(t) ==
    /\ tasks[t].pc = "rate_limit"
    /\ now >= tasks[t].wake
    /\ tasks' = [tasks EXCEPT ![t] = StartCall(tasks[t])]
    /\ last_request_time' = now
    /\ LogCall
    /\ UNCHANGED <<now, quota, faults, gvars, qvars>>

\* (mutant) one retry too many
CanRetryOnceMore(retries) == retries <= MAX_RETRIES

\* Lines 43, 57: retries < self.MAX_RETRIES
CanRetry(retries) == retries < MAX_RETRIES

\* (mutant) a backoff that does not grow
WaitTimeFlat(retries, jitter) == BACKOFF_UNIT + jitter

\* Lines 45, 58: wait_time = (2 ** retries) + random.uniform(0, 1)
WaitTime(retries, jitter) == BACKOFF_UNIT * (2 ^ retries) + jitter

\* return: the request is over.
Return(T, value) ==
    [T EXCEPT !.pc = "idle", !.result = value, !.done = @ + 1,
              !.wake = 0, !.call_start = 0]

\* Lines 45-47, 58-60: asyncio.sleep(wait_time) before the retry.
Backoff(T, jitter) ==
    [T EXCEPT !.pc = "backoff",
              !.call_start = 0,
              !.failed_at = now,
              !.backoffs = Append(@, [outcome |-> T.outcome,
                                      wait |-> WaitTime(T.retries, jitter)]),
              !.wait = WaitTime(T.retries, jitter),
              !.wake = now + WaitTime(T.retries, jitter)]

\* (mutant) a timeout handled as the other exceptions are
OnTimeoutRetried(T, jitter) ==
    IF CanRetry(T.retries) THEN Backoff(T, jitter) ELSE Return(T, None)

\* Lines 52-54: except asyncio.TimeoutError
OnTimeout(T, jitter) == Return(T, None)

\* Lines 55-62: except Exception
OnError(T, jitter) ==
    IF CanRetry(T.retries) THEN Backoff(T, jitter) ELSE Return(T, None)

\* (mutant) every failure status retried as 429 is
OnStatusRetryAll(T, status, jitter) ==
    IF status = "200" THEN Return(T, Body)
    ELSE IF CanRetry(T.retries) THEN Backoff(T, jitter)
    ELSE Return(T, None)

\* Lines 41-51: the response's status
OnStatus(T, status, jitter) ==
    IF status = "200" THEN Return(T, Body)
    ELSE IF status = "429" /\ CanRetry(T.retries) THEN Backoff(T, jitter)
    ELSE Return(T, None)

\* Lines 40-62: the network attempt ends: with a timeout when the total
\* timeout is over, with a response or a transport error before that.
Respond(t) ==
    /\ tasks[t].pc = "get"
    /\ \E outcome \in Outcomes, jitter \in BackoffJitter :
          LET T == [tasks[t] EXCEPT !.outcome = outcome] IN
          /\ IF outcome = "timeout"
               THEN now >= T.call_start + TIMEOUT_TOTAL
               ELSE /\ now >= T.call_start + NetDelay
                    /\ now <= T.call_start + TIMEOUT_TOTAL
          /\ outcome # "200" => faults > 0
          /\ faults' = IF outcome = "200" THEN faults ELSE faults - 1
          /\ tasks' = [tasks EXCEPT ![t] =
                IF outcome = "timeout" THEN OnTimeout(T, jitter)
                ELSE IF outcome = "error" THEN OnError(T, jitter)
                ELSE OnStatus(T, outcome, jitter)]
    /\ UNCHANGED <<now, last_request_time, quota, calls, min_gap, gvars, qvars>>

\* (mutant) a retry that goes to the network without the rate limiter
BackoffWakeDirect(t) ==
    /\ tasks[t].pc = "backoff"
    /\ now >= tasks[t].wake
    /\ tasks' = [tasks EXCEPT ![t] = StartCall([tasks[t] EXCEPT !.retries = @ + 1])]
    /\ LogCall
    /\ UNCHANGED <<now, last_request_time, quota, faults, gvars, qvars>>

\* Lines 48, 61: the backoff is over: _make_request(session, url, retries + 1).
BackoffWake(t) ==
    /\ tasks[t].pc = "backoff"
    /\ now >= tasks[t].wake
    /\ EnterRequest(t, [tasks[t] EXCEPT !.retries = @ + 1])
    /\ UNCHANGED <<now, quota, faults, gvars, qvars>>

\* The instants at which something pending becomes due.
Deadlines ==
    {tasks[t].wake : t \in {u \in TaskIds : tasks[u].pc \in {"rate_limit", "backoff"}}}
    \cup {tasks[t].call_start + d :
            t \in {u \in TaskIds : tasks[u].pc = "get"}, d \in {NetDelay, TIMEOUT_TOTAL}}

\* Time passes, up to the next deadline. A coroutine that is due may still
\* be resumed later (asyncio.sleep never returns early, but it may return
\* late); a network call is over when its total timeout is.
Advance ==
    /\ \E d \in Deadlines : d > now
    /\ \A t \in TaskIds :
          tasks[t].pc = "get" => now < tasks[t].call_start + TIMEOUT_TOTAL
    /\ now' = Min({d \in Deadlines : d > now})
    /\ UNCHANGED <<last_request_time, tasks, quota, faults, calls, min_gap, gvars, qvars>>

ClientNext ==
    \/ \E t \in TaskIds : MakeRequest(t)
    \/ \E t \in TaskIds : RateLimitWake(t)
    \/ \E t \in TaskIds : Respond(t)
    \/ \E t \in TaskIds : BackoffWake(t)
    \/ Advance

\* One caller issues its requests one after the other.
SeqInit ==
    /\ GraphInit
    /\ ClientInit
    /\ quota = [t \in TaskIds |-> IF t = 1 THEN MaxRequests ELSE 0]
    /\ faults = MaxFaults

SeqSpec == SeqInit /\ [][ClientNext]_vars

\* The fetches that asyncio.gather starts together (details, references,
\* citations), each a caller of its own.
ConcInit ==
    /\ GraphInit
    /\ ClientInit
    /\ quota = [t \in TaskIds |-> 1]
    /\ faults = ConcFaults

ConcSpec == ConcInit /\ [][ClientNext]_vars

(***************************************************************************)
(* The build under fair scheduling: the event loop resumes a coroutine     *)
(* that can run, and every fetch and every sleep eventually returns.       *)
(***************************************************************************)
BuildStep(b) ==
    \/ LoopSkip(b)
    \/ LoopProcess(b)
    \/ LoopExit(b)
    \/ GatherReturn(b)
    \/ GatherRaise(b)
    \/ SleepReturn(b)

\* Two starting points, which keep the liveness check small: the first call
\* of build_graph has named a missing graph and raised, so that one build
\* remains and it may be served the long lists; or no call has been made
\* and both builds are served short lists only.
FairInit ==
    /\ ClientInit
    /\ quota = [t \in TaskIds |-> 0]
    /\ faults = 0
    /\ graphs = EmptyMap
    /\ heap = <<>>
    /\ response = Pending
    /\ \/ /\ builds = [b \in BuildIds |->
                         IF b = 1 THEN [IdleBuild EXCEPT !.pc = "raised",
                                                         !.graph_id = 1,
                                                         !.result = "ValueError"]
                                  ELSE IdleBuild]
          /\ long_fetches = 0
       \/ /\ builds = [b \in BuildIds |-> IdleBuild]
          /\ long_fetches = MaxLongFetches

FairSpec == FairInit /\ [][Next]_vars /\ \A b \in BuildIds : WF_vars(BuildStep(b))

(***************************************************************************)
(* One build, called with any max_depth (an earlier call has named a       *)
(* missing graph and raised), served the short or the long lists.          *)
(***************************************************************************)
DepthInit ==
    /\ ClientInit
    /\ quota = [t \in TaskIds |-> 0]
    /\ faults = 0
    /\ graphs = EmptyMap
    /\ heap = <<>>
    /\ response = Pending
    /\ builds = [b \in BuildIds |->
                   IF b = 1 THEN [IdleBuild EXCEPT !.pc = "raised",
                                                   !.graph_id = 1,
                                                   !.result = "ValueError"]
                            ELSE IdleBuild]
    /\ long_fetches = 0

DepthNext ==
    \/ \E graph_id \in GraphIds, seed_pmid \in SeedPmids : CreateGraph(graph_id, seed_pmid)
    \/ \E graph_id \in GraphIds : DeleteGraph(graph_id)
    \/ \E b \in BuildIds, graph_id \in GraphIds, max_depth \in MaxDepths :
          BuildGraph(b, graph_id, max_depth)
    \/ \E b \in BuildIds : LoopSkip(b)
    \/ \E b \in BuildIds : LoopProcess(b)
    \/ \E b \in BuildIds : LoopExit(b)
    \/ \E b \in BuildIds : GatherReturn(b)
    \/ \E b \in BuildIds : GatherRaise(b)
    \/ \E b \in BuildIds : SleepReturn(b)

DepthSpec == DepthInit /\ [][DepthNext]_vars

(***************************************************************************)
(* The analytics queries on a finished graph. The store holds one graph    *)
(* under the id 1: any directed graph, self-loops included, on a subset of *)
(* AnalysedNodes.                                                          *)
(***************************************************************************)
AnalysedNodes == {1, 2, 3}

StoredGraph(S, E) ==
    [NewGraph(1, 1) EXCEPT !.status = "completed",
                           !.completed_at = TRUE,
                           !.total_articles = Cardinality(S),
                           !.processed_articles = Cardinality(S),
                           !.nodes = [n \in S |-> DetailsAttrs],
                           !.edges = [e \in E |-> "cites"]]

\* test_analytics.py, create_test_graph: seven articles, seven relationships
TestGraphEdges ==
    (<<1, 2>> :> "cites") @@ (<<1, 3>> :> "cites") @@ (<<4, 1>> :> "cited_by")
    @@ (<<5, 1>> :> "cited_by") @@ (<<6, 2>> :> "cites") @@ (<<2, 6>> :> "cited_by")
    @@ (<<3, 6>> :> "cited_by")
CreateTestGraph ==
    [StoredGraph(1..7, {}) EXCEPT !.edges = TestGraphEdges]

\* Graphs with many citing articles: each of the articles 1..Sources cites
\* the first 2, 3 or 4 of the four articles that follow them (the first and
\* the last of them cite 3).
Sources == 6
FanGraph(outs) ==
    StoredGraph(1..(Sources + 4),
                {<<i, Sources + k>> : i \in 1..Sources, k \in 1..4} \cap
                {e \in (1..Sources) \X ((Sources + 1)..(Sources + 4)) :
                    e[2] - Sources <= outs[e[1]]})

\* Graphs with many components: k chains of three articles, a pair and an
\* article on its own.
MaxChains == 4
ChainGraph(k) ==
    StoredGraph(1..(3 * k + 3),
                {<<3 * j + 1, 3 * j + 2>> : j \in 0..(k - 1)}
                \cup {<<3 * j + 2, 3 * j + 3>> : j \in 0..(k - 1)}
                \cup {<<3 * k + 1, 3 * k + 2>>})

AnalyticsInit ==
    /\ \/ \E S \in SUBSET AnalysedNodes : \E E \in SUBSET (S \X S) :
             heap = <<StoredGraph(S, E)>>
       \/ heap = <<CreateTestGraph>>
       \/ \E outs \in [1..Sources -> {2, 3, 4}] :
             /\ outs[1] = 3 /\ outs[Sources] = 3
             /\ heap = <<FanGraph(outs)>>
       \/ \E k \in 0..MaxChains : heap = <<ChainGraph(k)>>
    /\ graphs = (1 :> 1)
    /\ builds = [b \in BuildIds |-> IdleBuild]
    /\ long_fetches = 0
    /\ response = Pending
    /\ ClientInit
    /\ quota = [t \in TaskIds |-> 0]
    /\ faults = 0

\* (mutant) an analysis that turns the stored graph into its undirected
\* projection instead of working on a copy
CallGetGraphAnalyticsInPlace(graph_id) ==
    /\ response' = GetGraphAnalytics(graph_id)
    /\ heap' = IF graph_id \in DOMAIN graphs
                 THEN [heap EXCEPT ![graphs[graph_id]].edges =
                          ToUndirected(heap[graphs[graph_id]]).edges]
                 ELSE heap
    /\ UNCHANGED <<graphs, builds, long_fetches, cvars>>

\* GET /{graph_id}/analytics: the service's answer
CallGetGraphAnalytics(graph_id) ==
    /\ response' = GetGraphAnalytics(graph_id)
    /\ UNCHANGED <<gvars, cvars>>

\* GET /{graph_id}/nodes/{node_id}/analytics: the service's answer
CallGetNodeAnalytics(graph_id, node_id) ==
    /\ response' = GetNodeAnalytics(graph_id, node_id)
    /\ UNCHANGED <<gvars, cvars>>

AnalyticsNext ==
    \/ \E graph_id \in GraphIds : CallGetGraphAnalytics(graph_id)
    \/ \E graph_id \in GraphIds, node_id \in QueryNodes : CallGetNodeAnalytics(graph_id, node_id)

AnalyticsSpec == AnalyticsInit /\ [][AnalyticsNext]_vars

(***************************************************************************)
(* Properties.                                                             *)
(***************************************************************************)
Objects == DOMAIN heap
Nodes(G) == DOMAIN G.nodes
Edges(G) == DOMAIN G.edges

\* C1: the processed_articles counter of every graph is at most MAX_ARTICLES
\* at every point of every build_graph call, the first on a graph or a later one.
C1_ProcessedWithinBudget ==
    \A i \in Objects : heap[i].processed_articles <= MAX_ARTICLES

\* C2 (as stated): a build that has left its loop set completed_with_limit
\* exactly when it had processed MAX_ARTICLES identifiers and its frontier
\* was not empty, and completed in every other case.
C2_LimitIffBudgetAndFrontier ==
    \A b \in BuildIds : builds[b].pc = "done" =>
        /\ builds[b].result \in Terminal
        /\ builds[b].result = "completed_with_limit"
             <=> (builds[b].exit_processed = MAX_ARTICLES /\ builds[b].exit_frontier > 0)

\* C2 (amended): a build that has left its loop set completed_with_limit
\* exactly when it had processed MAX_ARTICLES identifiers, whether or not
\* its frontier was empty, and completed in every other case.
C2_LimitIffBudget ==
    \A b \in BuildIds : builds[b].pc = "done" =>
        /\ builds[b].result \in Terminal
        /\ builds[b].exit_processed <= MAX_ARTICLES
        /\ builds[b].result = "completed_with_limit"
             <=> builds[b].exit_processed = MAX_ARTICLES

\* C2's case: the budget was reached with nothing left in the frontier.
C2_Witness ==
    \E b \in BuildIds :
        /\ builds[b].pc = "done"
        /\ builds[b].result = "completed_with_limit"
        /\ builds[b].exit_frontier = 0

\* C3: a graph never has more than MAX_ARTICLES nodes, and total_articles
\* never exceeds MAX_ARTICLES.
C3_NodesWithinBudget ==
    \A i \in Objects :
        /\ Cardinality(Nodes(heap[i])) <= MAX_ARTICLES
        /\ heap[i].total_articles <= MAX_ARTICLES

\* C4: in every state of every graph both endpoints of every edge are nodes
\* of the graph, and every source and target that get_graph_data returns is
\* the id of a node it returns.
C4_EdgeEndpointsAreNodes ==
    /\ \A i \in Objects : \A e \in Edges(heap[i]) :
          e[1] \in Nodes(heap[i]) /\ e[2] \in Nodes(heap[i])
    /\ \A graph_id \in DOMAIN graphs :
          LET data == GetGraphData(graph_id)
              ids == {n.id : n \in data.nodes}
          IN  \A e \in data.edges : e.source \in ids /\ e.target \in ids

\* C4's case: a stored graph with edges, while building and once terminal.
C4_Witness ==
    /\ \E graph_id \in DOMAIN graphs :
          /\ heap[graphs[graph_id]].status = "building"
          /\ Cardinality(GetGraphData(graph_id).edges) >= 3
    /\ \E i \in Objects :
          heap[i].status \in Terminal /\ Edges(heap[i]) # {}

\* The moves of the status that the lifecycle allows.
StatusMoves ==
    { <<"initializing", "building">>,
      <<"building", "completed">>,
      <<"building", "completed_with_limit">> }

\* C5: the status of a graph only moves initializing -> building ->
\* completed or completed_with_limit, and once it is terminal no step changes
\* the status, the nodes or the edges.
C5_TerminalIsFinal ==
    [][\A i \in Objects :
          /\ heap'[i].status # heap[i].status
               => <<heap[i].status, heap'[i].status>> \in StatusMoves
          /\ heap[i].status \in Terminal
               => /\ heap'[i].status = heap[i].status
                  /\ heap'[i].nodes = heap[i].nodes
                  /\ heap'[i].edges = heap[i].edges]_vars

\* C6: every build_graph call on an existing graph that has started
\* eventually returns, having set a terminal status.
C6_BuildTerminates ==
    \A b \in BuildIds :
        (builds[b].pc \in {"loop", "gather", "sleep"})
            ~> (builds[b].pc = "done" /\ builds[b].result \in Terminal)

\* C6's case: a build has returned on a graph whose seed listed itself and
\* whose frontier held an identifier more than once.
C6_Witness ==
    \E b \in BuildIds :
        /\ builds[b].pc = "done"
        /\ LET G == heap[builds[b].graph] IN
             /\ <<G.seed_pmid, G.seed_pmid>> \in Edges(G)
             /\ <<G.seed_pmid, 2>> \in Edges(G) /\ <<2, G.seed_pmid>> \in Edges(G)

\* C7: the start times of any two network calls of one client are at least
\* RATE_LIMIT_DELAY apart, also when the requests are issued together.
C7_CallsSpaced ==
    min_gap = -1 \/ min_gap >= RATE_LIMIT_DELAY

\* The requests of a caller whose network call has started.
Started(T) == T.done + (IF T.pc \in {"get", "backoff"} \/ (T.pc = "rate_limit" /\ T.attempts > 0) THEN 1 ELSE 0)

\* C8: when one caller issues its requests one after the other, the N-th
\* network call starts at least (N-1) * RATE_LIMIT_DELAY after the first
\* request was issued, and no call starts less than RATE_LIMIT_DELAY after
\* the time recorded for the call before it.
C8_SequentialSpacing ==
    /\ \A t \in TaskIds :
          Started(tasks[t]) >= 1 =>
            /\ last_request_time - tasks[t].issued_at
                    >= (Started(tasks[t]) - 1) * RATE_LIMIT_DELAY
            /\ now - tasks[t].issued_at
                    >= (Started(tasks[t]) - 1) * RATE_LIMIT_DELAY
    /\ min_gap = -1 \/ min_gap >= RATE_LIMIT_DELAY

\* C8's case: all the requests have returned, each at its first attempt, in
\* the least time the limiter allows.
C8_Witness ==
    /\ tasks[1].done = MaxRequests
    /\ calls = MaxRequests
    /\ min_gap = RATE_LIMIT_DELAY

\* C9: one _make_request makes at most MAX_RETRIES + 1 network attempts,
\* retries after 429 and after transport errors counted together; the wait
\* before retry number k+1 is 2^k + jitter seconds, jitter in [0, 1), and the
\* retry does not start before it is over; a request whose last attempt got
\* 429 returned None after MAX_RETRIES + 1 attempts.
C9_BoundedRetries ==
    \A t \in TaskIds :
        LET T == tasks[t] IN
        /\ T.attempts <= MAX_RETRIES + 1
        /\ T.retries <= MAX_RETRIES
        /\ T.pc = "backoff" =>
              /\ T.outcome \in {"429", "error"}
              /\ T.wait >= BACKOFF_UNIT * (2 ^ T.retries)
              /\ T.wait < BACKOFF_UNIT * (2 ^ T.retries) + BACKOFF_UNIT
              /\ T.wake = T.failed_at + T.wait
        /\ (T.pc = "get" /\ T.retries > 0) =>
              /\ T.attempts = T.retries + 1
              /\ T.wait >= BACKOFF_UNIT * (2 ^ (T.retries - 1))
              /\ T.call_start >= T.failed_at + T.wait
        /\ (T.pc = "idle" /\ T.outcome = "429") =>
              /\ T.result = None
              /\ T.attempts = MAX_RETRIES + 1

\* C9's case: a request answered 429 at every attempt has returned None.
C9_Witness ==
    \E t \in TaskIds :
        /\ tasks[t].pc = "idle"
        /\ tasks[t].outcome = "429"
        /\ tasks[t].result = None
        /\ tasks[t].attempts = MAX_RETRIES + 1
        /\ faults = 0

C11_ReturnsBodyOrNone ==
    \A t \in TaskIds :
        LET T == tasks[t] IN
        /\ T.pc \in {"idle", "rate_limit", "get", "backoff"}
        /\ (T.pc = "idle" /\ T.done > 0) =>
              /\ T.result \in {Body, None}
              /\ T.result = Body <=> T.outcome = "200"
              /\ T.outcome \in Outcomes
        /\ T.outcome = "500" =>
              /\ T.pc = "idle" /\ T.result = None
              /\ T.attempts = Len(T.backoffs) + 1
              /\ \A k \in 1..Len(T.backoffs) : T.backoffs[k].outcome # "500"

\* C11's case: a request whose first response had a failure status other
\* than 429 returned None after that one attempt.
C11_Witness ==
    \E t \in TaskIds :
        /\ tasks[t].pc = "idle"
        /\ tasks[t].outcome = "500"
        /\ tasks[t].attempts = 1
        /\ tasks[t].result = None

\* C12: a request whose transport failed at the first two attempts and
\* succeeded at the third returned the body, and the wait before the third
\* attempt was strictly longer than the wait before the second, whatever
\* the jitters; more generally the waits of one request increase strictly.
C12_BackoffIncreases ==
    \A t \in TaskIds :
        LET T == tasks[t] IN
        /\ \A k \in 1..(Len(T.backoffs) - 1) :
              T.backoffs[k].wait < T.backoffs[k + 1].wait
        /\ (T.pc = "idle" /\ T.outcome = "200" /\ Len(T.backoffs) = 2) =>
              /\ T.result = Body
              /\ T.attempts = 3

\* C12's case: two transport failures, the first with the largest jitter
\* and the second with the smallest, then a success.
C12_Witness ==
    \E t \in TaskIds :
        LET T == tasks[t] IN
        /\ T.pc = "idle" /\ T.outcome = "200" /\ T.result = Body
        /\ Len(T.backoffs) = 2
        /\ T.backoffs[1].outcome = "error" /\ T.backoffs[2].outcome = "error"
        /\ T.backoffs[1].wait = BACKOFF_UNIT + 9
        /\ T.backoffs[2].wait = 2 * BACKOFF_UNIT

\* A synchronous method of the service runs when no coroutine holds the
\* event loop.
Callable == ~Running
IsGraphAnalytics(r) == "path_analysis" \in DOMAIN r
IsNodeAnalytics(r) == "degree" \in DOMAIN r

\* C13: for a graph id that is not in the store, get_graph_status,
\* get_graph_data, get_graph_analytics and get_node_analytics all return
\* None, and each of the four routes answers 404.
C13_NotFoundUniform ==
    \A graph_id \in GraphIds \ DOMAIN graphs :
        /\ GetGraphStatus(graph_id) = None
        /\ GetGraphData(graph_id) = None
        /\ GetGraphAnalytics(graph_id) = None
        /\ RouteGetGraphStatus(graph_id).status_code = 404
        /\ RouteGetGraphData(graph_id).status_code = 404
        /\ RouteGetGraphAnalytics(graph_id).status_code = 404
        /\ \A node_id \in QueryNodes :
              /\ GetNodeAnalytics(graph_id, node_id) = None
              /\ RouteGetNodeAnalytics(graph_id, node_id).status_code = 404

\* C13's case: one id was never created, the other was created, built and
\* deleted, and its graph object still has the queried nodes.
C13_Witness ==
    /\ Callable
    /\ graphs = EmptyMap
    /\ Len(heap) = 1
    /\ heap[1].status \in Terminal
    /\ {1, 2} \subseteq Nodes(heap[1])

\* C14: get_graph_analytics on a stored graph returns the not-ready outcome
\* when the status is initializing or building, and an analytics result
\* only when the status is completed or completed_with_limit.
C14_AnalyticsOnlyWhenTerminal ==
    \A graph_id \in DOMAIN graphs :
        LET G == heap[graphs[graph_id]] IN
        /\ G.status \in {"initializing", "building"} =>
              /\ GetGraphAnalytics(graph_id) = NotReady
              /\ ~IsGraphAnalytics(GetGraphAnalytics(graph_id))
              /\ RouteGetGraphAnalytics(graph_id).body = NotReady
        /\ (G.status \in Terminal /\ Cardinality(Nodes(G)) <= SmallGraph) =>
              /\ IsGraphAnalytics(GetGraphAnalytics(graph_id))
              /\ GetGraphAnalytics(graph_id) = AnalyzeGraph(G)

\* C14's case: a graph that is being built and has nodes and edges, and a
\* terminal graph, both stored.
C14_Witness ==
    /\ Callable
    /\ \E graph_id \in DOMAIN graphs :
          LET G == heap[graphs[graph_id]] IN
          G.status = "building" /\ Edges(G) # {}
    /\ \E graph_id \in DOMAIN graphs :
          LET G == heap[graphs[graph_id]] IN
          /\ G.status \in Terminal /\ Edges(G) # {}
          /\ IsGraphAnalytics(GetGraphAnalytics(graph_id))

\* C15: no analytics is computed on a graph whose status is not terminal:
\* get_graph_analytics returns no analytics result for it, and
\* get_node_analytics returns no degree data of any of its nodes.
C15_NoAnalyticsWhileBuilding ==
    Callable =>
      \A graph_id \in DOMAIN graphs :
        heap[graphs[graph_id]].status \notin Terminal =>
            /\ ~IsGraphAnalytics(GetGraphAnalytics(graph_id))
            /\ \A node_id \in QueryNodes :
                  ~IsNodeAnalytics(GetNodeAnalytics(graph_id, node_id))

\* C16: a build in which the processing of an identifier has raised goes on
\* and returns with a terminal status; the step that handles the failure
\* leaves the frontier and the graph as they are, and no step of any build
\* removes a node or an edge.
C16_FailureDoesNotAbort ==
    /\ [][/\ \A b \in BuildIds :
               (builds[b].pc = "gather" /\ builds'[b].pc \notin {"gather", "sleep"}) =>
                   /\ builds'[b].pc = "loop"
                   /\ builds'[b].to_process = builds[b].to_process
                   /\ heap' = heap
           /\ \A i \in Objects :
               /\ Nodes(heap[i]) \subseteq Nodes(heap'[i])
               /\ Edges(heap[i]) \subseteq Edges(heap'[i])]_vars
    /\ \A b \in BuildIds :
          (builds[b].pc \in {"loop", "gather", "sleep"} /\ builds[b].failed # {})
              ~> (builds[b].pc = "done" /\ builds[b].result \in Terminal)

\* C16's case: the processing of a neighbour raised after the seed was
\* expanded; the build skipped the repeat of that neighbour, processed the
\* neighbour after it and returned; the seed's edges are still there.
C16_Witness ==
    \E b \in BuildIds :
        /\ builds[b].pc = "done"
        /\ builds[b].failed = {2}
        /\ builds[b].exit_processed = 3
        /\ builds[b].result = "completed"
        /\ LET G == heap[builds[b].graph] IN
             /\ G.nodes[3] = DetailsAttrs
             /\ {<<1, 2>>, <<2, 1>>, <<3, 1>>} \subseteq Edges(G)

\* C17: build_graph called with a graph id that is not in the store raises
\* an error that names the id, without having fetched anything, and the
\* step leaves the store, every graph and the client as they were.
C17_UnknownIdRaises ==
    /\ [][\A b \in BuildIds :
             (builds[b].pc = "idle" /\ builds'[b].pc # "idle") =>
                IF builds'[b].graph_id \in DOMAIN graphs
                  THEN builds'[b].pc = "loop"
                  ELSE /\ builds'[b].pc = "raised"
                       /\ builds'[b].result = "ValueError"
                       /\ builds'[b].graph_id \in GraphIds
                       /\ graphs' = graphs /\ heap' = heap
                       /\ tasks' = tasks /\ calls' = calls]_vars
    /\ [](\A b \in BuildIds :
             builds[b].pc = "raised" =>
                /\ builds[b].result = "ValueError"
                /\ builds[b].processed_pmids = {}
                /\ builds[b].current_pmid = 0)

\* C17's case: build_graph has raised for an id that was created and then
\* deleted, while another graph is stored.
C17_Witness ==
    \E b \in BuildIds :
        /\ builds[b].pc = "raised"
        /\ builds[b].graph_id \notin DOMAIN graphs
        /\ \E i \in Objects : heap[i].id = builds[b].graph_id
        /\ graphs # EmptyMap

\* The elements of a list, and whether some element occurs in it twice.
Elements(list) == {list[i] : i \in DOMAIN list}
HasRepeat(list) == Cardinality(Elements(list)) < Len(list)
\* The (source, target, type) relationships the seed's lists stand for.
Relationships(seed, lists) ==
    {[source |-> seed, target |-> r, type |-> "cites"] : r \in Elements(lists.references)}
    \cup {[source |-> c, target |-> seed, type |-> "cited_by"] : c \in Elements(lists.citations)}
\* The graph of build b is built by b alone.
SoleBuilder(b) ==
    \A o \in BuildIds \ {b} : builds[o].pc \in {"idle", "raised"} \/ builds[o].graph # builds[b].graph

\* C18: when the seed's reference list or citation list holds an identifier
\* more than once, the graph has exactly one edge for it of that type and
\* direction, and the repeat adds nothing to the edge count: the count is the
\* number of distinct (source, target, type) relationships in the lists.
C18_EdgeInsertionIdempotent ==
    \A b \in BuildIds :
        LET B == builds[b]
            G == heap[B.graph]
            cites == {e \in Edges(G) : G.edges[e] = "cites"}
            cited_by == {e \in Edges(G) : G.edges[e] = "cited_by"}
        IN  (B.pc \in {"loop", "gather", "sleep", "done"} /\ SoleBuilder(b)
               /\ (HasRepeat(B.fetched.references) \/ HasRepeat(B.fetched.citations)))
            => /\ \A i \in DOMAIN B.fetched.references :
                    Cardinality({e \in cites : e[1] = G.seed_pmid /\ e[2] = B.fetched.references[i]}) = 1
               /\ \A i \in DOMAIN B.fetched.citations :
                    Cardinality({e \in cited_by : e[1] = B.fetched.citations[i] /\ e[2] = G.seed_pmid}) = 1
               /\ Cardinality(Edges(G)) = Cardinality(Relationships(G.seed_pmid, B.fetched))

\* C18 happens: the seed's references were <<3, 3>> and its citations <<3>>,
\* and the finished graph has the two edges (1, 3) and (3, 1).
C18_Witness ==
    \E b \in BuildIds :
        /\ builds[b].pc = "done"
        /\ SoleBuilder(b)
        /\ builds[b].fetched = [references |-> <<3, 3>>, citations |-> <<3>>]
        /\ Edges(heap[builds[b].graph]) = {<<1, 3>>, <<3, 1>>}
        /\ heap[builds[b].graph].edges[<<1, 3>>] = "cites"

\* C19: two relationships between the same ordered pair with different types
\* are two edges: when the seed is in its own reference list and in its own
\* citation list, the graph data holds the edge (seed, seed) of type cites
\* and the edge (seed, seed) of type cited_by.
C19_TypesKeptApart ==
    \A b \in BuildIds :
        LET B == builds[b]
            seed == heap[B.graph].seed_pmid
        IN  (B.pc \in {"loop", "gather", "sleep", "done"} /\ SoleBuilder(b)
               /\ B.graph_id \in DOMAIN graphs /\ graphs[B.graph_id] = B.graph
               /\ seed \in Elements(B.fetched.references)
               /\ seed \in Elements(B.fetched.citations))
            => {[source |-> seed, target |-> seed, type |-> t] : t \in {"cites", "cited_by"}}
                   \subseteq GetGraphData(B.graph_id).edges

\* C20: analyze_graph on a graph of exactly one node and no edge reports null
\* for diameter, average_shortest_path and radius, zero for density and for
\* global clustering, and no error.
C20_SingleNodeNulls ==
    LET G == heap[1] IN
    (IsGraphAnalytics(response) /\ Cardinality(Nodes(G)) = 1 /\ Edges(G) = {})
    => /\ "error" \notin DOMAIN response
       /\ response.path_analysis.diameter = None
       /\ response.path_analysis.average_shortest_path = None
       /\ response.path_analysis.radius = None
       /\ response.basic_statistics.density = Zero
       /\ response.clustering_analysis.global_clustering = Zero

\* C21: analyze_graph on a graph with at least one node reports total_nodes
\* and total_edges equal to the graph's node and edge counts, and
\* get_node_analytics of a node reports in_degree = the number of edges into
\* it, out_degree = the number of edges out of it, degree = their sum, and
\* lists exactly its predecessors and successors; on the seven-node test
\* graph node 1 has in_degree 2 and out_degree 2.
C21_CountsAndDegrees ==
    LET G == heap[1] IN
    /\ (IsGraphAnalytics(response) /\ Nodes(G) # {})
       => /\ response.basic_statistics.total_nodes = Number(Cardinality(Nodes(G)))
          /\ response.basic_statistics.total_edges = Number(Cardinality(Edges(G)))
    /\ IsNodeAnalytics(response)
       => LET n == response.node_id
              into == {e \in Edges(G) : e[2] = n}
              out == {e \in Edges(G) : e[1] = n}
          IN  /\ n \in Nodes(G)
              /\ response.in_degree = Number(Cardinality(into))
              /\ response.out_degree = Number(Cardinality(out))
              /\ response.degree = Number(Cardinality(into) + Cardinality(out))
              /\ response.predecessors = {e[1] : e \in into}
              /\ response.successors = {e[2] : e \in out}
    /\ (G = CreateTestGraph /\ IsGraphAnalytics(response))
       => /\ response.basic_statistics.total_nodes = Number(7)
          /\ response.basic_statistics.total_edges = Number(7)
    /\ (G = CreateTestGraph /\ IsNodeAnalytics(response) /\ response.node_id = 1)
       => /\ response.in_degree = Number(2)
          /\ response.out_degree = Number(2)

\* C21 happens: the analytics of node 2 of the test graph, which has the
\* edges 1->2, 6->2 and 2->6, were computed.
C21_Witness ==
    /\ heap[1] = CreateTestGraph
    /\ IsNodeAnalytics(response)
    /\ response.node_id = 2
    /\ response.degree = Number(3)
    /\ response.predecessors = {1, 6}

\* C21 as stated: for every graph, the graph without nodes included,
\* analyze_graph reports total_nodes and total_edges equal to the counts.
C21_CountsForEveryGraph ==
    LET G == heap[1] IN
    IsGraphAnalytics(response)
    => /\ "total_nodes" \in DOMAIN response.basic_statistics
       /\ response.basic_statistics.total_nodes = Number(Cardinality(Nodes(G)))
       /\ response.basic_statistics.total_edges = Number(Cardinality(Edges(G)))

\* C22: analyze_graph succeeds on every graph, the graph without nodes
\* included: the result holds the seven facets and is never an error
\* outcome; a facet whose computation fails is empty and the other facets are
\* still computed (on the graph without nodes basic_statistics,
\* clustering_analysis, path_analysis and summary fail, and the three others
\* are computed; on a graph with nodes no facet is empty).
C22_AnalysisNeverFails ==
    [][\A graph_id \in DOMAIN graphs :
          CallGetGraphAnalytics(graph_id)
          => LET G == heap[graphs[graph_id]]
                 failing == {"basic_statistics", "clustering_analysis",
                             "path_analysis", "summary"}
             IN  /\ DOMAIN response' = Facets
                 /\ \A f \in Facets :
                       response'[f] = EmptyMap <=> (Nodes(G) = {} /\ f \in failing)
                 /\ DOMAIN response'.centrality_measures =
                       {"degree_centrality", "betweenness_centrality", "closeness_centrality",
                        "eigenvector_centrality", "pagerank", "hubs", "authorities"}
                 /\ "emerging_topics" \in DOMAIN response'.research_insights
                 /\ "node_types" \in DOMAIN response'.network_structure]_vars

\* C22 happens: the graph without nodes was analysed; its basic statistics
\* are empty and its network structure, with nan for the mean degree, is not.
C22_Witness ==
    /\ Nodes(heap[1]) = {}
    /\ DOMAIN response = Facets
    /\ response.basic_statistics = EmptyMap
    /\ response.summary = EmptyMap
    /\ response.network_structure.degree_distribution.mean = NaN
    /\ response.research_insights.isolated_nodes = {}

\* The store knows a graph id: get_graph_status and get_graph_data return a
\* value for it and list_graphs holds exactly one summary for it.
Known(graph_id) ==
    /\ GetGraphStatus(graph_id) # None
    /\ GetGraphData(graph_id) # None
    /\ Cardinality({i \in DOMAIN ListGraphs : ListGraphs[i].graph_id = graph_id}) = 1
\* The store does not know it: neither query returns a value, no summary.
Unknown(graph_id) ==
    /\ GetGraphStatus(graph_id) = None
    /\ GetGraphData(graph_id) = None
    /\ \A i \in DOMAIN ListGraphs : ListGraphs[i].graph_id # graph_id

\* C23: a graph id is known to the store if and only if it was created and
\* not deleted since: no id is known at the start, every id is either known
\* or unknown, a create makes its id known, a delete makes its id unknown,
\* and no step changes this for another id, a build step for none; deleting
\* an unknown id answers not found and changes nothing.
C23_KnownIffCreatedNotDeleted ==
    [][\A graph_id \in GraphIds :
          /\ Known(graph_id) \/ Unknown(graph_id)
          /\ Known(graph_id)' \/ Unknown(graph_id)'
          /\ (\E seed_pmid \in SeedPmids : CreateGraph(graph_id, seed_pmid)) => Known(graph_id)'
          /\ CallDeleteGraph(graph_id)
             => /\ Unknown(graph_id)'
                /\ response'.status_code = IF Known(graph_id) THEN 200 ELSE 404
                /\ Unknown(graph_id) => UNCHANGED gvars
          /\ (Known(graph_id) /\ Unknown(graph_id)')
             => (CallDeleteGraph(graph_id) /\ response'.status_code = 200)
          /\ (Unknown(graph_id) /\ Known(graph_id)')
             => \E seed_pmid \in SeedPmids : CreateGraph(graph_id, seed_pmid)]_vars
    /\ [](heap = <<>> => \A graph_id \in GraphIds : Unknown(graph_id))

\* C23 happens: two graphs were created, the first was deleted, and a second
\* delete of it was answered with not found while the other graph is known.
C23_Witness ==
    /\ Len(heap) = 2
    /\ Unknown(1)
    /\ Known(2)
    /\ response.status_code = 404

\* C24: analyze_graph and get_node_analytics never mutate the graph they are
\* given: its node set, node attributes, edge set, edge types and metadata
\* are the same after the call as before, and so is the store.
C24_AnalyticsReadOnly ==
    [][((\E graph_id \in GraphIds : CallGetGraphAnalytics(graph_id))
        \/ (\E graph_id \in GraphIds, node_id \in QueryNodes :
               CallGetNodeAnalytics(graph_id, node_id)))
       => /\ graphs' = graphs
          /\ DOMAIN heap' = DOMAIN heap
          /\ \A i \in DOMAIN heap :
                /\ heap'[i].nodes = heap[i].nodes
                /\ heap'[i].edges = heap[i].edges
                /\ heap'[i] = heap[i]]_vars

\* C24 happens: a graph with a one-way edge and typed edges was analysed and
\* is still the graph it was.
C24_Witness ==
    /\ IsGraphAnalytics(response)
    /\ response.network_structure.reciprocity = Ratio(2, 7)
    /\ heap[1] = CreateTestGraph

Begun == {b \in BuildIds : builds[b].pc \in {"loop", "gather", "sleep", "done"}}

\* The elements of a list in the order of their first occurrence.
RECURSIVE FirstOccurrences(_, _)
FirstOccurrences(list, seen) ==
    IF list = <<>> THEN <<>>
    ELSE IF Head(list) \in seen THEN FirstOccurrences(Tail(list), seen)
    ELSE <<Head(list)>> \o FirstOccurrences(Tail(list), seen \cup {Head(list)})

\* What a build has enqueued: the seed, then the references and the citing
\* works in the order they were returned.
EnqueuedOrder(b) ==
    <<heap[builds[b].graph].seed_pmid>>
    \o builds[b].fetched.references \o builds[b].fetched.citations

\* C26: identifiers are processed in the order they were enqueued: the seed
\* first, then its references in the order returned, then its citing works
\* in the order returned; a build that has ended has processed exactly the
\* first MAX_ARTICLES distinct identifiers of that sequence, or all of them
\* when they are fewer.
C26_ProcessedInFifoOrder ==
    \A b \in Begun :
        LET B == builds[b]
            sequence == FirstOccurrences(EnqueuedOrder(b), {})
            n == Len(B.order)
        IN  /\ n <= Len(sequence)
            /\ B.order = SubSeq(sequence, 1, n)
            /\ B.pc = "done"
               => /\ n = (IF Len(sequence) < MAX_ARTICLES THEN Len(sequence) ELSE MAX_ARTICLES)
                  /\ B.exit_processed = n

\* C26 happens: a build was served 50 distinct neighbours and the budget
\* stopped it: the 50th identifier processed is the 49th neighbour, 51, and
\* the last neighbour, 52, was not processed.
C26_Witness ==
    \E b \in Begun :
        /\ builds[b].pc = "done"
        /\ builds[b].result = "completed_with_limit"
        /\ Len(builds[b].order) = MAX_ARTICLES
        /\ builds[b].order[1] = 1
        /\ builds[b].order[2] = 3
        /\ builds[b].order[MAX_ARTICLES] = 51
        /\ builds[b].fetched = [references |-> Range(3, 27), citations |-> Range(28, 52)]

\* C27: within one build_graph call no identifier is processed or fetched
\* more than once, however often it occurs in the frontier: the passes
\* through the marking, the counting and the start of the two fetches are one
\* per processed identifier, and processed_articles has grown by one for
\* each of them (it is the number of passes of the builds of the graph).
C27_ProcessedOnce ==
    /\ \A b \in Begun :
          LET B == builds[b] IN
          /\ Cardinality(Elements(B.order)) = Len(B.order)
          /\ B.pc # "done" => B.processed_pmids = Elements(B.order)
          /\ B.pc = "done" => B.exit_processed = Len(B.order)
    /\ \A i \in DOMAIN heap :
          LET of_i == {b \in Begun : builds[b].graph = i} IN
          heap[i].processed_articles = Sum([b \in of_i |-> Len(builds[b].order)], of_i)

\* C27 happens: the seed's lists held its neighbour 3 three times, the build
\* has ended, and 3 was processed once.
C27_Witness ==
    \E b \in Begun :
        /\ builds[b].pc = "done"
        /\ SoleBuilder(b)
        /\ builds[b].fetched = [references |-> <<3, 3>>, citations |-> <<3>>]
        /\ builds[b].order = <<1, 3>>
        /\ heap[builds[b].graph].processed_articles = 2

\* The identifiers whose processing by build b is over: those it has taken
\* from the frontier, the one whose fetches it is waiting for apart.
Processed(b) ==
    LET B == builds[b] IN
    IF B.pc = "gather" THEN Elements(SubSeq(B.order, 1, Len(B.order) - 1))
    ELSE Elements(B.order)

\* C28: once the build loop has processed an identifier, it is a node of the
\* graph, carrying the fetched metadata or the placeholder; in particular the
\* seed is a node once it has been processed, also when its processing failed.
C28_ProcessedIsNode ==
    \A b \in Begun :
        LET G == heap[builds[b].graph] IN
        \A pmid \in Processed(b) :
            /\ pmid \in Nodes(G)
            /\ G.nodes[pmid] \in {DetailsAttrs, PlaceholderAttrs}

\* C29: after an identifier has become a node of a graph, no step changes
\* that node's attributes.
C29_NodeAttributesImmutable ==
    [][\A i \in DOMAIN heap :
          \A n \in Nodes(heap[i]) :
              n \in Nodes(heap'[i]) /\ heap'[i].nodes[n] = heap[i].nodes[n]]_vars

\* C30: a get_graph_status or get_graph_data call that runs while a build of
\* the graph is suspended sees a consistent snapshot: every returned edge has
\* both endpoints among the returned nodes, total_articles is the number of
\* returned nodes in both answers, and the seed expansion of a build is
\* visible whole or not at all (every relationship of the returned lists is
\* an edge once the lists are returned, and a graph built by one build alone
\* has no edge before).
C30_ConsistentSnapshot ==
    Callable =>
    \A graph_id \in DOMAIN graphs :
        LET data == GetGraphData(graph_id)
            status == GetGraphStatus(graph_id)
            ids == {node.id : node \in data.nodes}
            pairs == {<<edge.source, edge.target>> : edge \in data.edges}
        IN  /\ \A edge \in data.edges : edge.source \in ids /\ edge.target \in ids
            /\ data.metadata.total_articles = Cardinality(data.nodes)
            /\ status.total_articles = Cardinality(data.nodes)
            /\ \A b \in InProgress :
                  builds[b].graph = graphs[graph_id]
                  => LET expansion == Relationships(data.metadata.seed_pmid, builds[b].fetched)
                     IN  /\ {<<r.source, r.target>> : r \in expansion} \subseteq pairs
                         /\ (SoleBuilder(b) /\ expansion = {}) => pairs = {}

\* C30 happens: a build is waiting for the fetches of its second identifier,
\* and the data of its graph show the seed, its three neighbours-to-be and
\* the four edges of the seed's expansion.
C30_Witness ==
    /\ Callable
    /\ \E b \in InProgress :
          /\ builds[b].pc = "gather"
          /\ builds[b].graph_id \in DOMAIN graphs
          /\ graphs[builds[b].graph_id] = builds[b].graph
          /\ Len(builds[b].order) = 2
          /\ Cardinality(GetGraphData(builds[b].graph_id).edges) = 4
          /\ GetGraphStatus(builds[b].graph_id).total_articles = 3
          /\ GetGraphStatus(builds[b].graph_id).status = "building"

\* C31: every network attempt of _make_request, the first and each retry, is
\* preceded by a pass through the rate limiter that sets last_request_time:
\* when an attempt starts last_request_time is set to the present time,
\* whatever the outcome of the attempts before it, an attempt under way
\* started no later than last_request_time, and last_request_time never
\* decreases.
C31_RateLimiterBeforeEveryAttempt ==
    /\ [][/\ last_request_time' >= last_request_time
          /\ \A t \in TaskIds :
                tasks'[t].attempts = tasks[t].attempts + 1
                => /\ tasks'[t].pc = "get"
                   /\ last_request_time' = now'
                   /\ tasks'[t].call_start = last_request_time']_vars
    /\ [](\A t \in TaskIds :
            tasks[t].pc = "get"
            => /\ tasks[t].call_start <= last_request_time
               /\ last_request_time <= now)

\* C31 happens: the second retry of a request is under way after two failed
\* attempts, and last_request_time is the time it started, later than the
\* last failure.
C31_Witness ==
    \E t \in TaskIds :
        /\ tasks[t].pc = "get"
        /\ tasks[t].retries = 2
        /\ tasks[t].attempts = 3
        /\ last_request_time = tasks[t].call_start
        /\ last_request_time > tasks[t].failed_at

\* C32: in network_structure a node is listed as a hub exactly when its
\* out-degree is greater than 1.5 times the mean out-degree, and as an
\* authority exactly when its in-degree is greater than 1.5 times the mean
\* in-degree (both means are edges / nodes); a graph without edges has no
\* hubs and no authorities.
C32_HubsAndAuthorities ==
    LET G == heap[1]
        n == Cardinality(Nodes(G))
        m == Cardinality(Edges(G))
        out(v) == Cardinality({e \in Edges(G) : e[1] = v})
        into(v) == Cardinality({e \in Edges(G) : e[2] = v})
    IN  IsGraphAnalytics(response)
        => LET node_types == response.network_structure.node_types IN
           /\ \A v \in Nodes(G) :
                 /\ v \in node_types.hubs <=> 2 * out(v) * n > 3 * m
                 /\ v \in node_types.authorities <=> 2 * into(v) * n > 3 * m
           /\ node_types.hubs \subseteq Nodes(G)
           /\ node_types.authorities \subseteq Nodes(G)
           /\ n > 0 => /\ node_types.avg_out_degree = Ratio(m, n)
                       /\ node_types.avg_in_degree = Ratio(m, n)
           /\ m = 0 => node_types.hubs = {} /\ node_types.authorities = {}

\* C32 happens: the test graph (mean degrees 1) was analysed: node 1, with
\* two references, is its hub, and 1, 2 and 6, cited twice, its authorities.
C32_Witness ==
    /\ heap[1] = CreateTestGraph
    /\ IsGraphAnalytics(response)
    /\ response.network_structure.node_types.hubs = {1}
    /\ response.network_structure.node_types.authorities = {1, 2, 6}

\* C33: in research_insights, emerging_topics holds at most 5 nodes, each
\* with out-degree > 2 and in-degree <= 1, in non-increasing order of
\* out-degree, and a node that meets the condition is left out only when five
\* are listed, none of them with a lower out-degree; isolated_nodes is
\* exactly the set of the nodes of degree 0; well_connected_clusters holds at
\* most 3 weakly connected components, each of size >= 3 (all of them when
\* they are at most 3).
C33_ResearchInsights ==
    LET G == heap[1]
        out(v) == Cardinality({e \in Edges(G) : e[1] = v})
        into(v) == Cardinality({e \in Edges(G) : e[2] = v})
        meeting == {v \in Nodes(G) : out(v) > 2 /\ into(v) <= 1}
        large == {c \in WeaklyConnectedComponents(G) : Cardinality(c) >= 3}
    IN  IsGraphAnalytics(response)
        => LET insights == response.research_insights
               topics == insights.emerging_topics
               listed == {topics[i][1] : i \in DOMAIN topics}
           IN  /\ Len(topics) <= 5
               /\ Cardinality(listed) = Len(topics)
               /\ listed \subseteq meeting
               /\ \A i \in DOMAIN topics :
                     /\ topics[i][2] = out(topics[i][1])
                     /\ topics[i][3] = into(topics[i][1])
               /\ \A i, j \in DOMAIN topics : i < j => topics[i][2] >= topics[j][2]
               /\ \A v \in meeting \ listed :
                     /\ Len(topics) = 5
                     /\ \A w \in listed : out(w) >= out(v)
               /\ insights.isolated_nodes = {v \in Nodes(G) : out(v) + into(v) = 0}
               /\ Nodes(G) # {}
                  => /\ Cardinality(insights.well_connected_clusters) <= 3
                     /\ insights.well_connected_clusters \subseteq large
                     /\ Cardinality(large) <= 3 => insights.well_connected_clusters = large

\* C33 happens: six articles meet the condition, two of them with four
\* references; five are listed, the two first, and one with three
\* references is left out.
C33_Witness ==
    /\ IsGraphAnalytics(response)
    /\ Cardinality({v \in Nodes(heap[1]) : OutDegree(heap[1], v) > 2}) = 6
    /\ Len(response.research_insights.emerging_topics) = 5
    /\ response.research_insights.emerging_topics[1] = <<2, 4, 0>>
    /\ response.research_insights.emerging_topics[2] = <<5, 4, 0>>
    /\ response.research_insights.emerging_topics[3][2] = 3

\* C34: get_node_analytics on a stored graph with a node id that is not a
\* node of that graph returns the not-found error and nothing else (no
\* degree, no neighbourhood, no score), and the route passes that answer on
\* without raising.
C34_UnknownNodeNotFound ==
    [][\A graph_id \in GraphIds, node_id \in QueryNodes :
          ( /\ CallGetNodeAnalytics(graph_id, node_id)
            /\ graph_id \in DOMAIN graphs
            /\ node_id \notin Nodes(heap[graphs[graph_id]]) )
          => /\ DOMAIN response' = {"error"}
             /\ response'.error = "Node not found in graph"
             /\ RouteGetNodeAnalytics(graph_id, node_id)
                  = [status_code |-> 200, body |-> [error |-> "Node not found in graph"]]]_vars

\* C34 happens: a node that the seven-node test graph lacks has been asked for.
C34_Witness ==
    /\ heap[1] = CreateTestGraph
    /\ 99 \notin Nodes(heap[1])
    /\ response = [error |-> "Node not found in graph"]

\* C35: in every reachable state of a stored graph the completion timestamp
\* is present if and only if the status is terminal, and limit_reached is
\* true if and only if the status is completed_with_limit; a graph that is
\* still initializing has both counters 0, no completion timestamp and
\* limit_reached false.
C35_TimestampIffTerminal ==
    \A graph_id \in DOMAIN graphs :
        LET G == heap[graphs[graph_id]] IN
        /\ G.completed_at <=> G.status \in Terminal
        /\ G.limit_reached <=> G.status = "completed_with_limit"
        /\ G.status = "initializing"
           => /\ G.total_articles = 0
              /\ G.processed_articles = 0
              /\ ~G.completed_at
              /\ ~G.limit_reached

\* C36: when the first build of a graph (no other build_graph call has begun
\* on it) ends with status completed and no processing of a node failed,
\* every node of the graph has been processed: the nodes are the processed
\* identifiers, total_articles equals processed_articles, and every node has
\* the fetched or the placeholder attributes; whatever the failures, a node
\* that was never processed exists at the end of that build only when the
\* status is completed_with_limit.
C36_CompletedMeansAllProcessed ==
    \A b \in BuildIds :
        LET B == builds[b]
            G == heap[B.graph]
        IN  (B.pc = "done" /\ SoleBuilder(b))
            => /\ (G.status = "completed" /\ B.failed = {})
                  => /\ Nodes(G) = Elements(B.order)
                     /\ G.total_articles = G.processed_articles
                     /\ G.total_articles = Cardinality(Nodes(G))
                     /\ \A n \in Nodes(G) : G.nodes[n] \in {DetailsAttrs, PlaceholderAttrs}
               /\ Nodes(G) \ Elements(B.order) # {} => G.status = "completed_with_limit"

\* C36 happens: a build that met no failure has ended completed on a graph
\* of three nodes, all processed.
C36_Witness ==
    \E b \in BuildIds :
        /\ builds[b].pc = "done"
        /\ SoleBuilder(b)
        /\ builds[b].failed = {}
        /\ heap[builds[b].graph].status = "completed"
        /\ Nodes(heap[builds[b].graph]) = {1, 2, 3}
        /\ heap[builds[b].graph].processed_articles = 3
        /\ heap[builds[b].graph].total_articles = 3

\* The graph objects that the store holds.
Stored == {graphs[graph_id] : graph_id \in DOMAIN graphs}

\* C37: deleting a graph while its build is in progress does not crash the
\* build and is final: the delete changes no graph and no build; a build in
\* progress never fails and keeps the graph it holds, and one whose graph
\* has been deleted still runs to its end; no step of a build changes the
\* store (an id becomes known only by a create, so status, data and
\* analytics queries of a deleted id keep returning nothing) nor any graph
\* other than the one the build took from the store under its id.
C37_DeleteDuringBuild ==
    /\ [][/\ \A b \in BuildIds :
               /\ builds[b].pc \in {"loop", "gather", "sleep"}
                  => /\ builds'[b].pc # "raised"
                     /\ builds'[b].graph = builds[b].graph
               /\ BuildStep(b)
                  => /\ graphs' = graphs
                     /\ \A o \in Objects \ {builds[b].graph} : heap'[o] = heap[o]
               /\ \A graph_id \in GraphIds :
                     BuildGraph(b, graph_id, DEFAULT_MAX_DEPTH)
                     => /\ graphs' = graphs
                        /\ graph_id \in DOMAIN graphs => builds'[b].graph = graphs[graph_id]
                        /\ \A o \in Objects :
                              (graph_id \notin DOMAIN graphs \/ o # graphs[graph_id])
                              => heap'[o] = heap[o]
           /\ \A graph_id \in GraphIds :
               /\ DeleteGraph(graph_id)
                  => /\ heap' = heap /\ builds' = builds
                     /\ Unknown(graph_id)' /\ GetGraphAnalytics(graph_id)' = None
                     /\ \A other \in DOMAIN graphs \ {graph_id} :
                           other \in DOMAIN graphs' /\ graphs'[other] = graphs[other]
               /\ (Unknown(graph_id) /\ ~Unknown(graph_id)')
                  => \E seed_pmid \in SeedPmids : CreateGraph(graph_id, seed_pmid)
               /\ Unknown(graph_id) => GetGraphAnalytics(graph_id) = None]_vars
    /\ \A b \in BuildIds :
          (builds[b].pc \in {"loop", "gather", "sleep"} /\ builds[b].graph \notin Stored)
              ~> (builds[b].pc = "done" /\ heap[builds[b].graph].status \in Terminal)

\* C37 happens: a graph was deleted while its build was in progress; the
\* build has gone on to give it three nodes and is not at its end yet, the
\* id is unknown, and another graph is stored, untouched.
C37_Witness ==
    \E b \in BuildIds :
        /\ builds[b].pc = "sleep"
        /\ builds[b].graph \notin Stored
        /\ Unknown(builds[b].graph_id)
        /\ Nodes(heap[builds[b].graph]) = {1, 2, 3}
        /\ \E graph_id \in DOMAIN graphs : heap[graphs[graph_id]] = NewGraph(graph_id, 1)

=============================================================================
